---------------------------- MODULE Spec2Model ----------------------------
(***************************************************************************)
(* Model of the terminal input decoding pipeline of clui_lib.console:      *)
(*   keystroke_common.InputBuffer      - the handoff queue                 *)
(*   keystroke_posix.StdinListener     - the raw byte reader thread        *)
(*   keystroke_posix.KeystrokesListener- the decoder thread                *)
(*   keystroke_posix.KeyboardListener  - the consumer (main thread)        *)
(*                                                                         *)
(* Python values are modelled as records with a "type" field so that any   *)
(* two of them can be compared:                                            *)
(*   None                  [type |-> "None"]                               *)
(*   str                   [type |-> "str", val |-> <<code points>>]       *)
(*   bytes                 [type |-> "bytes", val |-> <<byte values>>]     *)
(*   ControlCode           [type |-> "ControlCode", Name, Keys]            *)
(* A thread switch can happen between any two statements, so every         *)
(* statement of put() and get() is one step of the model.                  *)
(***************************************************************************)
EXTENDS Integers, Sequences, FiniteSets, TLC

VARIABLES
    queues,     \* queue name -> [IsActive, Buffer, Lock] (InputBuffer objects)
    pc,         \* thread -> position in its function
    call,       \* thread -> the put()/get() call it is executing, or NoCall
    ret,        \* thread -> value returned (or error raised) by its last call
    hist,       \* SpecSeq: the last calls made, with the queue before and after
    steady,     \* SpecConc: the queue was opened with no call in progress and
                \*           has been neither closed nor emptied since
    putLog,     \* SpecConc: while steady, the items stored at opening and then
                \*           the items passed to put, in call order
    getLog,     \* SpecConc: while steady, the items returned by get, in order
    Input,      \* KeystrokesListener: the accumulator (code points)
    Entries,    \* KeystrokesListener: entries of the running for loop not yet put
    Key,        \* KeyboardListener: the last value taken from the output queue
    StopKey,    \* KeyboardListener: the key that ends the session
    term,       \* the terminal: its mode, StdinListener's original_settings,
                \*   how often tcsetattr restored them, which call raised
    tables,     \* [Csi, Mapping]: CSI_MAPPING and ASCII_CONTROL_MAPPING
    readLog,    \* the code points sys.stdin.read(1) returned, in order
    windows,    \* the non-empty accumulators the decoder classified, in order
    gotLog,     \* the values KeyboardListener got from the output queue, in order
    typed,      \* SpecTyped: the characters the user types, in order
    lateReads,  \* the code points read after the decoder closed the raw queue
    host,       \* the process that imports the platform module: the module,
                \*   os.name, $TERM, the TerminalType detected, what was
                \*   reported and the exit status
    stopReads,  \* SpecStop: the code points read after the consumer closed
                \*   the event queue
    ui          \* the widget of cli_ui the caller holds (a ProgressBarIndicator
                \*   or an HContainer), with what its last call did

concVars == <<steady, putLog, getLog>>

pipeVars ==
    <<Input, Entries, Key, StopKey, term, tables, readLog, windows, gotLog,
      typed, lateReads, host, stopReads, ui>>

vars == <<queues, pc, call, ret, hist, concVars, pipeVars>>

(***************************************************************************)
(* Bounds of the model.                                                    *)
(***************************************************************************)
MaxBuf == 3         \* longest storage explored by the sequential specification
HistLen == 4        \* how many past calls the sequential history remembers
MaxLog == 4         \* longest put log explored by the two-thread specification
MaxReads == 2       \* how many characters the terminal delivers in a session

(***************************************************************************)
(* Python values.                                                          *)
(***************************************************************************)
None == [type |-> "None"]

Str(codes) == [type |-> "str", val |-> codes]

IndexError == [type |-> "Error", name |-> "IndexError"]

\* the variables of the pipeline, in the specifications that have no pipeline
NoSession ==
    /\ Input = <<>> /\ Entries = <<>> /\ Key = None /\ StopKey = None
    /\ term = None /\ tables = None
    /\ readLog = <<>> /\ windows = <<>> /\ gotLog = <<>> /\ lateReads = <<>>
    /\ typed = <<>> /\ host = None /\ stopReads = <<>>

\* ... and no widget either
NoPipeline == NoSession /\ ui = None

\* items handed to a queue in the queue-only specifications: 'a' and 'b'
Items == {Str(<<97>>), Str(<<98>>)}

(***************************************************************************)
(* InputBuffer (keystroke_common.py).                                      *)
(***************************************************************************)
\* __init__: closed, empty, lock free
NewInputBuffer == [IsActive |-> FALSE, Buffer |-> <<>>, Lock |-> "free"]

IsActive(qs) == qs.IsActive

\* fault variant: the storage is not looked at
IsNotEmpty_always(qs) == TRUE

IsNotEmpty(qs) == IF Len(qs.Buffer) > 0 THEN TRUE ELSE FALSE

\* fault variant: the flag is flipped instead of set
activate_toggle(qs) == [qs EXCEPT !.IsActive = ~@]

activate(qs) == [qs EXCEPT !.IsActive = TRUE]

deactivate(qs) == [qs EXCEPT !.IsActive = FALSE]

\* fault variant: the storage is not cleared
empty_noop(qs) == qs

empty(qs) == [qs EXCEPT !.Buffer = <<>>]

NoCall == [op |-> "none", q |-> "none", at |-> "none", Data |-> None]

PutCall(q, Data) == [op |-> "put", q |-> q, at |-> "lock", Data |-> Data]

GetCall(q) == [op |-> "get", q |-> q, at |-> "notempty", Data |-> None]

\* a call waiting at 'with self._Lock' can proceed only when the lock is free
CallEnabled(qs, c) == c.at = "lock" => qs.Lock = "free"

\* fault variant: no test of the flag
put_unguarded(qs) == TRUE

\* the test 'if self.IsActive' of put (line 239)
put_guard(qs) == IsActive(qs)

\* fault variant: no test of the flag
get_unguarded(qs) == TRUE

\* the test 'if self.IsActive' of get (line 254)
get_guard(qs) == IsActive(qs)

\* fault variant: pop() takes the last item
pop_last(Buffer) ==
    [Result |-> Buffer[Len(Buffer)], Buffer |-> SubSeq(Buffer, 1, Len(Buffer) - 1)]

\* self._Buffer.pop(0): the removed item and the remaining storage
pop0(Buffer) == [Result |-> Head(Buffer), Buffer |-> Tail(Buffer)]

\* fault variant: insert(0, Data)
append_front(Buffer, Data) == <<Data>> \o Buffer

\* self._Buffer.append(Data)
append(Buffer, Data) == Append(Buffer, Data)

\* fault variant: the lock is kept when the 'with' block is left
unlock_skipped(qs) == qs

\* the end of a 'with self._Lock' block: the lock is released
unlock(qs) == [qs EXCEPT !.Lock = "free"]

\* One statement of put() executed by thread t: the queue, the rest of the
\* call and the value returned when the call is over.
put(qs, c, t) ==
    CASE c.at = "lock" ->
            [q |-> [qs EXCEPT !.Lock = t], c |-> [c EXCEPT !.at = "test"],
             Result |-> None]
      [] c.at = "test" ->
            IF put_guard(qs)
            THEN [q |-> qs, c |-> [c EXCEPT !.at = "append"], Result |-> None]
            ELSE [q |-> unlock(qs), c |-> NoCall, Result |-> None]
      [] c.at = "append" ->
            [q |-> unlock([qs EXCEPT !.Buffer = append(@, c.Data)]),
             c |-> NoCall, Result |-> None]

\* One statement of get() executed by thread t.
get(qs, c, t) ==
    CASE c.at = "notempty" ->
            IF IsNotEmpty(qs)
            THEN [q |-> qs, c |-> [c EXCEPT !.at = "lock"], Result |-> None]
            ELSE [q |-> qs, c |-> NoCall, Result |-> None]
      [] c.at = "lock" ->
            [q |-> [qs EXCEPT !.Lock = t], c |-> [c EXCEPT !.at = "test"],
             Result |-> None]
      [] c.at = "test" ->
            IF get_guard(qs)
            THEN [q |-> qs, c |-> [c EXCEPT !.at = "pop"], Result |-> None]
            ELSE [q |-> unlock(qs), c |-> NoCall, Result |-> None]
      [] c.at = "pop" ->
            IF Len(qs.Buffer) = 0
            THEN \* pop from an empty list raises; 'with' releases the lock
                 [q |-> unlock(qs), c |-> NoCall, Result |-> IndexError]
            ELSE [q |-> unlock([qs EXCEPT !.Buffer = pop0(@).Buffer]),
                  c |-> NoCall, Result |-> pop0(qs.Buffer).Result]

CallStep(qs, c, t) == IF c.op = "put" THEN put(qs, c, t) ELSE get(qs, c, t)

\* a whole call, run without interruption by a single caller
RECURSIVE RunCall(_, _, _)
RunCall(qs, c, t) ==
    LET r == CallStep(qs, c, t)
    IN  IF r.c.op = "none" THEN r ELSE RunCall(r.q, r.c, t)

(***************************************************************************)
(* SpecSeq: one caller uses one InputBuffer, one whole call at a time.     *)
(***************************************************************************)
SeqThreads == {"main"}

Entry(op, arg, res, pre, post) ==
    [op |-> op, arg |-> arg, res |-> res, pre |-> pre, post |-> post]

Remember(h, e) ==
    IF Len(h) < HistLen THEN Append(h, e) ELSE Append(Tail(h), e)

SeqInit ==
    /\ queues = [q \in {"Buffer"} |-> NewInputBuffer]
    /\ pc = [t \in SeqThreads |-> "idle"]
    /\ call = [t \in SeqThreads |-> NoCall]
    /\ ret = [t \in SeqThreads |-> None]
    /\ hist = <<>>
    /\ steady = FALSE /\ putLog = <<>> /\ getLog = <<>>
    /\ NoPipeline

SeqDo(op, arg, r) ==
    /\ queues' = [queues EXCEPT !["Buffer"] = r.q]
    /\ ret' = [ret EXCEPT !["main"] = r.Result]
    /\ hist' = Remember(hist, Entry(op, arg, r.Result, queues["Buffer"], r.q))
    /\ UNCHANGED <<pc, call, concVars, pipeVars>>

SeqActivate ==
    SeqDo("activate", None, [q |-> activate(queues["Buffer"]), Result |-> None])

SeqDeactivate ==
    SeqDo("deactivate", None, [q |-> deactivate(queues["Buffer"]), Result |-> None])

SeqEmpty ==
    SeqDo("empty", None, [q |-> empty(queues["Buffer"]), Result |-> None])

SeqPut ==
    \E Data \in Items :
        /\ Len(queues["Buffer"].Buffer) < MaxBuf
        /\ SeqDo("put", Data, RunCall(queues["Buffer"], PutCall("Buffer", Data), "main"))

SeqGet ==
    SeqDo("get", None, RunCall(queues["Buffer"], GetCall("Buffer"), "main"))

SeqNext == SeqActivate \/ SeqDeactivate \/ SeqEmpty \/ SeqPut \/ SeqGet

SpecSeq == SeqInit /\ [][SeqNext]_vars

(***************************************************************************)
(* InputBuffer of keystroke_abc.py, the class keystroke_possix.py imports. *)
(* Its attributes _bIsActive, _lstBuffer and _objLock are the fields       *)
(* IsActive, Buffer and Lock of the record; __init__, the two properties,  *)
(* activate, deactivate and empty read as those of keystroke_common.py.    *)
(***************************************************************************)
\* One statement of put() of keystroke_abc.py (lines 151-152), by thread t
abc_put(qs, c, t) ==
    CASE c.at = "lock" ->
            [q |-> [qs EXCEPT !.Lock = t], c |-> [c EXCEPT !.at = "append"],
             Result |-> None]
      [] c.at = "append" ->
            [q |-> unlock([qs EXCEPT !.Buffer = append(@, c.Data)]),
             c |-> NoCall, Result |-> None]

\* One statement of get() of keystroke_abc.py (lines 159-164), by thread t
abc_get(qs, c, t) ==
    CASE c.at = "notempty" ->
            IF IsNotEmpty(qs)
            THEN [q |-> qs, c |-> [c EXCEPT !.at = "lock"], Result |-> None]
            ELSE [q |-> qs, c |-> NoCall, Result |-> None]
      [] c.at = "lock" ->
            [q |-> [qs EXCEPT !.Lock = t], c |-> [c EXCEPT !.at = "pop"],
             Result |-> None]
      [] c.at = "pop" ->
            IF Len(qs.Buffer) = 0
            THEN [q |-> unlock(qs), c |-> NoCall, Result |-> IndexError]
            ELSE [q |-> unlock([qs EXCEPT !.Buffer = pop0(@).Buffer]),
                  c |-> NoCall, Result |-> pop0(qs.Buffer).Result]

abc_CallStep(qs, c, t) ==
    IF c.op = "put" THEN abc_put(qs, c, t) ELSE abc_get(qs, c, t)

\* a whole call, run without interruption by a single caller
RECURSIVE abc_RunCall(_, _, _)
abc_RunCall(qs, c, t) ==
    LET r == abc_CallStep(qs, c, t)
    IN  IF r.c.op = "none" THEN r ELSE abc_RunCall(r.q, r.c, t)

(***************************************************************************)
(* SpecTwin: one caller makes the same calls, one whole call at a time, on *)
(* an InputBuffer of keystroke_common.py and on one of keystroke_abc.py.   *)
(* ret holds what the last call returned from each of the two.             *)
(***************************************************************************)
Twins == {"common", "abc"}

TwinInit ==
    /\ queues = [q \in Twins |-> NewInputBuffer]
    /\ pc = [t \in SeqThreads |-> "idle"]
    /\ call = [t \in SeqThreads |-> NoCall]
    /\ ret = [q \in Twins |-> None]
    /\ hist = <<>>
    /\ steady = FALSE /\ putLog = <<>> /\ getLog = <<>>
    /\ NoPipeline

\* the call leaves r.common and r.abc
TwinDo(r) ==
    /\ queues' = [q \in Twins |-> r[q].q]
    /\ ret' = [q \in Twins |-> r[q].Result]
    /\ UNCHANGED <<pc, call, hist, concVars, pipeVars>>

TwinActivate ==
    TwinDo([q \in Twins |-> [q |-> activate(queues[q]), Result |-> None]])

TwinDeactivate ==
    TwinDo([q \in Twins |-> [q |-> deactivate(queues[q]), Result |-> None]])

TwinEmpty ==
    TwinDo([q \in Twins |-> [q |-> empty(queues[q]), Result |-> None]])

TwinPut ==
    \E Data \in Items :
        /\ \A q \in Twins : Len(queues[q].Buffer) < MaxBuf
        /\ TwinDo([common |-> RunCall(queues["common"], PutCall("common", Data), "main"),
                    abc |-> abc_RunCall(queues["abc"], PutCall("abc", Data), "main")])

TwinGet ==
    TwinDo([common |-> RunCall(queues["common"], GetCall("common"), "main"),
            abc |-> abc_RunCall(queues["abc"], GetCall("abc"), "main")])

TwinNext == TwinActivate \/ TwinDeactivate \/ TwinEmpty \/ TwinPut \/ TwinGet

SpecTwin == TwinInit /\ [][TwinNext]_vars

\* C35: after every sequence of activate, deactivate, put, get and empty calls
\* made on both, the two classes have returned the same value and hold the
\* same items.
C35_SameResultsAndStorage ==
    /\ ret["common"] = ret["abc"]
    /\ queues["common"].Buffer = queues["abc"].Buffer

(***************************************************************************)
(* Claims about the queue used by a single caller (SpecSeq).               *)
(***************************************************************************)
HistIdx == 1..Len(hist)

\* C2: whenever the queue is not active, a newly constructed queue included,
\* put(item) leaves the stored sequence and the active flag as they were:
\* the item is discarded.
C2_PutInactiveDiscards ==
    \A i \in HistIdx :
        (hist[i].op = "put" /\ ~hist[i].pre.IsActive)
            => /\ hist[i].post.Buffer = hist[i].pre.Buffer
               /\ hist[i].post.IsActive = hist[i].pre.IsActive

\* a put was made on a closed queue that holds items
C2_Witness ==
    \E i \in HistIdx :
        /\ hist[i].op = "put"
        /\ ~hist[i].pre.IsActive
        /\ Len(hist[i].pre.Buffer) > 0

\* C3: deactivate closes the queue and removes nothing; every get on a closed
\* queue returns None, also when items are stored, and removes nothing.
C3_DeactivateIsNoDrain ==
    \A i \in HistIdx :
        /\ hist[i].op = "deactivate"
            => /\ ~hist[i].post.IsActive
               /\ hist[i].post.Buffer = hist[i].pre.Buffer
        /\ (hist[i].op = "get" /\ ~hist[i].pre.IsActive)
            => /\ hist[i].res = None
               /\ hist[i].post.Buffer = hist[i].pre.Buffer

\* deactivate on a queue that holds items, then a get
C3_Witness ==
    \E i \in HistIdx :
        /\ i + 1 \in HistIdx
        /\ hist[i].op = "deactivate"
        /\ hist[i].pre.IsActive
        /\ Len(hist[i].pre.Buffer) > 0
        /\ hist[i + 1].op = "get"

\* C4: activate(); put(x); get() on an empty queue returns x and leaves the
\* queue empty; get on an active non-empty queue removes and returns the head;
\* get on an active empty queue returns None and changes nothing.
C4_RoundTrip ==
    /\ \A i \in HistIdx :
        (/\ i + 2 \in HistIdx
         /\ hist[i].op = "activate" /\ Len(hist[i].pre.Buffer) = 0
         /\ hist[i + 1].op = "put"
         /\ hist[i + 2].op = "get")
            => /\ hist[i + 2].res = hist[i + 1].arg
               /\ Len(hist[i + 2].post.Buffer) = 0
    /\ \A i \in HistIdx :
        (hist[i].op = "get" /\ hist[i].pre.IsActive)
            => IF Len(hist[i].pre.Buffer) > 0
               THEN /\ hist[i].res = Head(hist[i].pre.Buffer)
                    /\ hist[i].post.Buffer = Tail(hist[i].pre.Buffer)
                    /\ hist[i].post.IsActive
               ELSE /\ hist[i].res = None
                    /\ hist[i].post = hist[i].pre

\* a get on an open empty queue, then the round trip on that queue
C4_Witness ==
    /\ Len(hist) = 4
    /\ hist[1].op = "get" /\ hist[1].pre.IsActive /\ Len(hist[1].pre.Buffer) = 0
    /\ hist[2].op = "activate"
    /\ hist[3].op = "put"
    /\ hist[4].op = "get" /\ hist[4].res = hist[3].arg

\* C5: activate twice in a row, or deactivate twice in a row, leaves the same
\* active flag and the same storage as the first call alone.
C5_Idempotent ==
    \A i \in HistIdx :
        (/\ i + 1 \in HistIdx
         /\ hist[i].op \in {"activate", "deactivate"}
         /\ hist[i + 1].op = hist[i].op)
            => /\ hist[i + 1].post.IsActive = hist[i].post.IsActive
               /\ hist[i + 1].post.Buffer = hist[i].post.Buffer

\* activate twice on a closed queue with items, then deactivate twice
C5_Witness ==
    /\ Len(hist) = 4
    /\ hist[1].op = "activate" /\ hist[2].op = "activate"
    /\ ~hist[1].pre.IsActive /\ Len(hist[1].pre.Buffer) > 0
    /\ hist[3].op = "deactivate" /\ hist[4].op = "deactivate"

\* C6: empty() clears the storage and leaves the active flag unchanged; after
\* deactivate(); empty(); activate() the next get returns None.
C6_EmptyClears ==
    /\ \A i \in HistIdx :
        hist[i].op = "empty"
            => /\ Len(hist[i].post.Buffer) = 0
               /\ hist[i].post.IsActive = hist[i].pre.IsActive
    /\ \A i \in HistIdx :
        (/\ i + 3 \in HistIdx
         /\ hist[i].op = "deactivate" /\ hist[i + 1].op = "empty"
         /\ hist[i + 2].op = "activate" /\ hist[i + 3].op = "get")
            => hist[i + 3].res = None

\* the teardown sequence was run on an open queue that held items
C6_Witness ==
    /\ Len(hist) = 4
    /\ hist[1].op = "deactivate" /\ hist[1].pre.IsActive
    /\ Len(hist[1].pre.Buffer) > 0
    /\ hist[2].op = "empty" /\ hist[3].op = "activate" /\ hist[4].op = "get"

(***************************************************************************)
(* SpecConc: a producer thread calls put and a consumer thread calls get   *)
(* on one InputBuffer; the consumer's side also opens, closes and empties  *)
(* the queue, as KeystrokesListener and KeyboardListener do.  A thread     *)
(* switch can happen between any two statements of put and get.            *)
(***************************************************************************)
ConcThreads == {"producer", "consumer"}

IsPrefix(s, t) == Len(s) <= Len(t) /\ SubSeq(t, 1, Len(s)) = s

ConcInit ==
    /\ queues = [q \in {"Buffer"} |-> NewInputBuffer]
    /\ pc = [t \in ConcThreads |-> "idle"]
    /\ call = [t \in ConcThreads |-> NoCall]
    /\ ret = [t \in ConcThreads |-> None]
    /\ hist = <<>>
    /\ steady = FALSE /\ putLog = <<>> /\ getLog = <<>>
    /\ NoPipeline

Idle(t) == pc[t] = "idle" /\ call[t].op = "none"

\* the producer enters put(Data)
ConcPut ==
    \E Data \in Items :
        /\ Idle("producer")
        /\ Len(queues["Buffer"].Buffer) < MaxBuf
        /\ Len(putLog) < MaxLog
        /\ call' = [call EXCEPT !["producer"] = PutCall("Buffer", Data)]
        /\ putLog' = IF steady THEN Append(putLog, Data) ELSE putLog
        /\ UNCHANGED <<queues, pc, ret, hist, steady, getLog, pipeVars>>

\* the consumer enters get()
ConcGet ==
    /\ Idle("consumer")
    /\ call' = [call EXCEPT !["consumer"] = GetCall("Buffer")]
    /\ UNCHANGED <<queues, pc, ret, hist, concVars, pipeVars>>

\* thread t executes the next statement of its call
ConcStep(t) ==
    /\ call[t].op # "none"
    /\ CallEnabled(queues[call[t].q], call[t])
    /\ LET r == CallStep(queues[call[t].q], call[t], t)
           over == r.c.op = "none"
       IN  /\ queues' = [queues EXCEPT ![call[t].q] = r.q]
           /\ call' = [call EXCEPT ![t] = r.c]
           /\ ret' = IF over THEN [ret EXCEPT ![t] = r.Result] ELSE ret
           /\ pc' = IF over /\ r.Result = IndexError
                    THEN [pc EXCEPT ![t] = "raised"] ELSE pc
           /\ getLog' = IF over /\ call[t].op = "get" /\ steady
                           /\ r.Result # None /\ r.Result # IndexError
                        THEN Append(getLog, r.Result) ELSE getLog
    /\ UNCHANGED <<hist, steady, putLog, pipeVars>>

ProducerStep == ConcStep("producer")

ConsumerStep == ConcStep("consumer")

ConcActivate ==
    /\ Idle("consumer")
    /\ queues' = [queues EXCEPT !["Buffer"] = activate(@)]
    /\ IF ~steady /\ Idle("producer")
       THEN /\ steady' = TRUE
            /\ putLog' = queues["Buffer"].Buffer
            /\ getLog' = <<>>
       ELSE UNCHANGED concVars
    /\ UNCHANGED <<pc, call, ret, hist, pipeVars>>

ConcDeactivate ==
    /\ Idle("consumer")
    /\ queues' = [queues EXCEPT !["Buffer"] = deactivate(@)]
    /\ steady' = FALSE /\ putLog' = <<>> /\ getLog' = <<>>
    /\ UNCHANGED <<pc, call, ret, hist, pipeVars>>

ConcEmpty ==
    /\ Idle("consumer")
    /\ queues' = [queues EXCEPT !["Buffer"] = empty(@)]
    /\ steady' = FALSE /\ putLog' = <<>> /\ getLog' = <<>>
    /\ UNCHANGED <<pc, call, ret, hist, pipeVars>>

ConcNext ==
    \/ ConcPut \/ ConcGet \/ ProducerStep \/ ConsumerStep
    \/ ConcActivate \/ ConcDeactivate \/ ConcEmpty

SpecConc == ConcInit /\ [][ConcNext]_vars

\* C1: for a queue that stays active, with one producer calling put and one
\* consumer calling get under any interleaving, the items returned by get are
\* a prefix of the items passed to put (nothing reordered, duplicated or
\* dropped): what was put is what was got, then what is stored, then the item
\* of a put still in progress.
C1_Fifo ==
    steady =>
        /\ IsPrefix(getLog, putLog)
        /\ putLog = getLog \o queues["Buffer"].Buffer
                      \o (IF call["producer"].op = "put"
                          THEN <<call["producer"].Data>> ELSE <<>>)

\* two different items were got in order, and a third get waits for the lock
\* that a put in progress holds
C1_Witness ==
    /\ steady
    /\ Len(getLog) >= 2 /\ getLog[1] # getLog[2]
    /\ call["producer"].at = "append"
    /\ call["consumer"].at = "lock"

(***************************************************************************)
(* SpecShared: two threads use one InputBuffer and each of them may call   *)
(* any of its methods.  activate, deactivate and empty are one statement   *)
(* each; put and get are executed statement by statement.  A thread whose  *)
(* call raised an exception has ended.                                     *)
(***************************************************************************)
SharedThreads == {"t1", "t2"}

SharedInit ==
    /\ queues = [q \in {"Buffer"} |-> NewInputBuffer]
    /\ pc = [t \in SharedThreads |-> "idle"]
    /\ call = [t \in SharedThreads |-> NoCall]
    /\ ret = [t \in SharedThreads |-> None]
    /\ hist = <<>>
    /\ steady = FALSE /\ putLog = <<>> /\ getLog = <<>>
    /\ NoPipeline

\* thread t enters put(Data)
SharedPut(t) ==
    \E Data \in Items :
        /\ Idle(t)
        /\ Len(queues["Buffer"].Buffer) < MaxBuf
        /\ call' = [call EXCEPT ![t] = PutCall("Buffer", Data)]
        /\ UNCHANGED <<queues, pc, ret, hist, concVars, pipeVars>>

\* thread t enters get()
SharedGet(t) ==
    /\ Idle(t)
    /\ call' = [call EXCEPT ![t] = GetCall("Buffer")]
    /\ UNCHANGED <<queues, pc, ret, hist, concVars, pipeVars>>

SharedActivate(t) ==
    /\ Idle(t)
    /\ queues' = [queues EXCEPT !["Buffer"] = activate(@)]
    /\ UNCHANGED <<pc, call, ret, hist, concVars, pipeVars>>

SharedDeactivate(t) ==
    /\ Idle(t)
    /\ queues' = [queues EXCEPT !["Buffer"] = deactivate(@)]
    /\ UNCHANGED <<pc, call, ret, hist, concVars, pipeVars>>

SharedEmpty(t) ==
    /\ Idle(t)
    /\ queues' = [queues EXCEPT !["Buffer"] = empty(@)]
    /\ UNCHANGED <<pc, call, ret, hist, concVars, pipeVars>>

SharedNext ==
    \E t \in SharedThreads :
        \/ SharedPut(t) \/ SharedGet(t) \/ ConcStep(t)
        \/ SharedActivate(t) \/ SharedDeactivate(t) \/ SharedEmpty(t)

SpecShared == SharedInit /\ [][SharedNext]_vars

(***************************************************************************)
(* Claims about the queue shared by two threads (SpecShared).              *)
(***************************************************************************)
\* C18: no queue operation can fail: under every interleaving of put, get,
\* empty, activate and deactivate issued by two threads on one InputBuffer no
\* call raises an error; get never pops from an emptied storage.
C18_NoCallRaises ==
    \A t \in SharedThreads : ret[t] # IndexError /\ pc[t] # "raised"

\* C19: put, get and empty modify the storage only while holding the lock:
\* whenever the storage changes, the thread that made the step held the lock.
C19_StorageChangesUnderLock ==
    [][queues'["Buffer"].Buffer # queues["Buffer"].Buffer
        => \E t \in SharedThreads :
              /\ queues["Buffer"].Lock = t
              /\ call'[t] # call[t]]_vars

(***************************************************************************)
(* Classification of the accumulated input (keystroke_posix.py).           *)
(* A str is its sequence of code points, a bytes object its sequence of    *)
(* byte values.  A function that can raise returns [ok |-> TRUE, val |-> v]*)
(* or [ok |-> FALSE, err |-> name of the exception].                       *)
(***************************************************************************)
ESC == 27

Bytes(val) == [type |-> "bytes", val |-> val]

ControlCode(Name, Keys) == [type |-> "ControlCode", Name |-> Name, Keys |-> Keys]

Ok(val) == [ok |-> TRUE, val |-> val]

Raise(err) == [ok |-> FALSE, err |-> err]

\* the names of the codes 0..32, in order
ControlCodeNames ==
    <<"NUL", "SOH", "STX", "ETX", "EOT", "ENQ", "ACK", "BEL", "BS", "TAB", "LF",
      "VT", "FF", "CR", "SO", "SI", "DLE", "DC1", "DC2", "DC3", "DC4", "NAK",
      "SYN", "ETB", "CAN", "EM", "SUB", "ESC", "FS", "GS", "RS", "US", "SPACE">>

\* fault variant: the table has no entry for 32
ASCII_CONTROL_CODES_no_space ==
    [c \in (0..31) \cup {127} |-> IF c = 127 THEN "DEL" ELSE ControlCodeNames[c + 1]]

\* fault variant: the table has no entry for 127
ASCII_CONTROL_CODES_no_del == [c \in 0..32 |-> ControlCodeNames[c + 1]]

ASCII_CONTROL_CODES ==
    [c \in (0..32) \cup {127} |->
        IF c = 127 THEN "DEL" ELSE ControlCodeNames[c + 1]]

\* list('Undefined'): the key list ControlCode builds from the default string
UndefinedKeys == <<"U", "n", "d", "e", "f", "i", "n", "e", "d">>

\* fault variant: 'Ctrl-' as code points
AltPrefix_ctrl == <<67, 116, 114, 108, 45>>

\* 'Alt-' as code points
AltPrefix == <<65, 108, 116, 45>>

\* bytes(Input, 'utf-8') for one code point
EncodeChar(c) ==
    IF c < 128 THEN <<c>>
    ELSE IF c < 2048 THEN <<192 + (c \div 64), 128 + (c % 64)>>
    ELSE IF c < 65536
         THEN <<224 + (c \div 4096), 128 + ((c \div 64) % 64), 128 + (c % 64)>>
         ELSE <<240 + (c \div 262144), 128 + ((c \div 4096) % 64),
                128 + ((c \div 64) % 64), 128 + (c % 64)>>

RECURSIVE Utf8Encode(_)
Utf8Encode(codes) ==
    IF codes = <<>> THEN <<>>
    ELSE EncodeChar(Head(codes)) \o Utf8Encode(Tail(codes))

IsCont(b) == 128 <= b /\ b <= 191

\* Data.decode('utf_8'): the code points, or UnicodeDecodeError
RECURSIVE Utf8Decode(_)
Utf8Decode(data) ==
    IF data = <<>> THEN Ok(<<>>)
    ELSE LET b == data[1]
             n == IF b < 128 THEN 1
                  ELSE IF 194 <= b /\ b <= 223 THEN 2
                  ELSE IF 224 <= b /\ b <= 239 THEN 3
                  ELSE IF 240 <= b /\ b <= 244 THEN 4
                  ELSE 0
         IN  IF n = 0 \/ Len(data) < n
                \/ \E i \in 2..n : ~IsCont(data[i])
             THEN Raise("UnicodeDecodeError")
             ELSE LET c == CASE n = 1 -> b
                             [] n = 2 -> (b - 192) * 64 + (data[2] - 128)
                             [] n = 3 -> (b - 224) * 4096 + (data[2] - 128) * 64
                                          + (data[3] - 128)
                             [] n = 4 -> (b - 240) * 262144
                                          + (data[2] - 128) * 4096
                                          + (data[3] - 128) * 64 + (data[4] - 128)
                      rest == Utf8Decode(SubSeq(data, n + 1, Len(data)))
                  IN  IF (n = 3 /\ c < 2048) \/ (n = 4 /\ c < 65536)
                         \/ (55296 <= c /\ c <= 57343) \/ c > 1114111
                      THEN Raise("UnicodeDecodeError")
                      ELSE IF rest.ok THEN Ok(<<c>> \o rest.val) ELSE rest

\* fault variant: every character is taken for a printable one
SplitCharacters_literal(Data, Mapping) ==
    Ok([i \in 1..Len(Data) |-> Str(<<Data[i]>>)])

\* SplitCharacters(Data) with the table ASCII_CONTROL_MAPPING = Mapping
RECURSIVE SplitCharacters(_, _)
SplitCharacters(Data, Mapping) ==
    IF Data = <<>> THEN Ok(<<>>)
    ELSE LET Char == Head(Data)
             rest == SplitCharacters(Tail(Data), Mapping)
         IN  IF Char \in DOMAIN ASCII_CONTROL_CODES
             THEN LET Name == ASCII_CONTROL_CODES[Char]
                  IN  IF Name \notin DOMAIN Mapping THEN Raise("KeyError")
                      ELSE IF rest.ok
                           THEN Ok(<<ControlCode(Name, Mapping[Name])>> \o rest.val)
                           ELSE rest
             ELSE IF rest.ok THEN Ok(<<Str(<<Char>>)>> \o rest.val) ELSE rest

\* fault variant: the bytes are split without being decoded
SplitBytes_undecoded(data, Mapping) == SplitCharacters(data, Mapping)

\* SplitCharacters(Data.decode('utf_8'))
SplitBytes(data, Mapping) ==
    LET d == Utf8Decode(data)
    IN  IF d.ok THEN SplitCharacters(d.val, Mapping) ELSE d

\* lines 144-145: the (0-based) index of the first ESC byte
RECURSIVE FirstEscape(_, _)
FirstEscape(Data, Index) ==
    IF Data[Index + 1] # ESC THEN FirstEscape(Data, Index + 1) ELSE Index

\* fault variant: Data[Start:] is not cut at the later ESC bytes
EscapedBuffer_uncut(Data, Start, Index) == <<SubSeq(Data, Start + 1, Len(Data))>>

\* lines 149-156: Data[Start:] cut in front of every later ESC byte
RECURSIVE EscapedBuffer(_, _, _)
EscapedBuffer(Data, Start, Index) ==
    IF Index < Len(Data)
    THEN IF Data[Index + 1] = ESC
         THEN <<SubSeq(Data, Start + 1, Index)>> \o EscapedBuffer(Data, Index, Index + 1)
         ELSE EscapedBuffer(Data, Start, Index + 1)
    ELSE <<SubSeq(Data, Start + 1, Index)>>

\* lines 167-173: the longest proper prefix of two bytes or more that is a
\* key of CSI_MAPPING is appended as it is, then the split rest; nothing is
\* appended when no prefix is a key
RECURSIVE ClippedSearch(_, _, _, _)
ClippedSearch(Escaped, Index, Csi, Mapping) ==
    IF Index <= 1 THEN Ok(<<>>)
    ELSE LET Clipped == SubSeq(Escaped, 1, Index)
         IN  IF Clipped \in DOMAIN Csi
             THEN LET Temp == SplitBytes(SubSeq(Escaped, Index + 1, Len(Escaped)),
                                         Mapping)
                  IN  IF Temp.ok THEN Ok(<<Bytes(Clipped)>> \o Temp.val) ELSE Temp
             ELSE ClippedSearch(Escaped, Index - 1, Csi, Mapping)

\* fault variant: the key itself is appended, as line 170 does
CsiLookup_raw(Escaped, Csi) == Bytes(Escaped)

\* line 159: CSI_MAPPING[Escaped]
CsiLookup(Escaped, Csi) == Csi[Escaped]

\* lines 158-175: the events of one escape group
ParseEscaped(Escaped, Csi, Mapping) ==
    IF Escaped \in DOMAIN Csi THEN Ok(<<CsiLookup(Escaped, Csi)>>)
    ELSE IF Len(Escaped) >= 2
    THEN IF 32 <= Escaped[2] /\ Escaped[2] < 127
         THEN IF Len(Escaped) > 2
              THEN LET Temp == SplitBytes(SubSeq(Escaped, 3, Len(Escaped)), Mapping)
                   IN  IF Temp.ok
                       THEN Ok(<<Str(AltPrefix \o <<Escaped[2]>>)>> \o Temp.val)
                       ELSE Temp
              ELSE Ok(<<Str(AltPrefix \o <<Escaped[2]>>)>>)
         ELSE ClippedSearch(Escaped, Len(Escaped) - 1, Csi, Mapping)
    ELSE IF "ESC" \in DOMAIN Mapping
         THEN Ok(<<ControlCode("ESC", Mapping["ESC"])>>)
         ELSE Raise("KeyError")

RECURSIVE ParseGroups(_, _, _)
ParseGroups(groups, Csi, Mapping) ==
    IF groups = <<>> THEN Ok(<<>>)
    ELSE LET first == ParseEscaped(Head(groups), Csi, Mapping)
         IN  IF ~first.ok THEN first
             ELSE LET rest == ParseGroups(Tail(groups), Csi, Mapping)
                  IN  IF rest.ok THEN Ok(first.val \o rest.val) ELSE rest

\* ParseEscapeSequence(Data) with the tables CSI_MAPPING = Csi and
\* ASCII_CONTROL_MAPPING = Mapping; Data holds an ESC byte
ParseEscapeSequence(Data, Csi, Mapping) ==
    LET Index == FirstEscape(Data, 0)
        lead == IF Index # 0 THEN SplitBytes(SubSeq(Data, 1, Index), Mapping)
                ELSE Ok(<<>>)
    IN  IF ~lead.ok THEN lead
        ELSE LET rest == ParseGroups(EscapedBuffer(Data, Index, Index + 1),
                                     Csi, Mapping)
             IN  IF rest.ok THEN Ok(lead.val \o rest.val) ELSE rest

\* KeystrokesListener lines 249-265: the entries put into the output queue
\* for a non-empty accumulator Text (Input)
Classify(Text, Csi, Mapping) ==
    IF Len(Text) = 1
    THEN LET Code == Text[1]
         IN  IF Code \in DOMAIN ASCII_CONTROL_CODES
             THEN LET Name == ASCII_CONTROL_CODES[Code]
                      Keys == IF Name \in DOMAIN Mapping THEN Mapping[Name]
                              ELSE UndefinedKeys
                  IN  Ok(<<ControlCode(Name, Keys)>>)
             ELSE Ok(<<Str(Text)>>)
    ELSE LET Encoded == Utf8Encode(Text)
         IN  IF \E i \in 1..Len(Encoded) : Encoded[i] = ESC
             THEN ParseEscapeSequence(Encoded, Csi, Mapping)
             ELSE SplitCharacters(Text, Mapping)

(***************************************************************************)
(* The lookup tables of clui_lib.console.xterm_new_mapping.                *)
(***************************************************************************)
\* 'ArrowUp' as code points
ArrowUp == Str(<<65, 114, 114, 111, 119, 85, 112>>)

XtermCsiMapping == [k \in {<<ESC, 91, 65>>} |-> ArrowUp]

ControlNames == {ASCII_CONTROL_CODES[c] : c \in DOMAIN ASCII_CONTROL_CODES}

XtermControlMapping ==
    [n \in ControlNames |->
        CASE n = "TAB" -> <<"Ctrl-i", "Tab">>
          [] n = "BEL" -> <<"Ctrl-g">>
          [] n = "ESC" -> <<"Ctrl-[", "Esc">>
          [] OTHER -> <<n>>]

\* 'Alt-Tab' as code points
AltTab == Str(<<65, 108, 116, 45, 84, 97, 98>>)

\* a CSI table that also has a key whose second byte is not printable
AltTabCsiMapping == [k \in {<<ESC, 91, 65>>, <<ESC, 9>>} |->
                        IF k = <<ESC, 9>> THEN AltTab ELSE ArrowUp]

(***************************************************************************)
(* SpecPipe: one listening session.  KeyboardListener (thread "main")      *)
(* starts KeystrokesListener (thread "decoder"), which starts              *)
(* StdinListener (thread "reader").  The terminal delivers up to MaxReads  *)
(* characters of Alphabet; every system call of the reader can raise.      *)
(***************************************************************************)
PipeThreads == {"main", "decoder", "reader"}

\* the characters typed: ESC, '[' and 'A'
Alphabet == {ESC, 91, 65}

\* the stop keys of the sessions explored: '' (stop at once) and 'A'
StopKeys == {Str(<<>>), Str(<<65>>)}

NewTerminal ==
    [mode |-> "canonical", original_settings |-> "unset", restored |-> 0,
     raised |-> "none"]

\* the process after keystroke_posix was imported on a POSIX system whose
\* terminal is an xterm
PosixHost ==
    [module |-> "keystroke_posix", os |-> "posix", TERM |-> "xterm-256color",
     TerminalType |-> Bytes(<<"xterm-256color">>), reported |-> "none",
     status |-> "running"]

\* the state at the entry of KeyboardListener
PipeStart ==
    /\ queues = [q \in {"Buffer", "InBuffer"} |-> NewInputBuffer]
    /\ pc = [t \in PipeThreads |-> IF t = "main" THEN "start" ELSE "unstarted"]
    /\ call = [t \in PipeThreads |-> NoCall]
    /\ ret = [t \in PipeThreads |-> None]
    /\ hist = <<>>
    /\ steady = FALSE /\ putLog = <<>> /\ getLog = <<>>
    /\ Input = <<>> /\ Entries = <<>>
    /\ Key = Str(<<>>)
    /\ StopKey \in StopKeys
    /\ term = NewTerminal
    /\ tables = [Csi |-> XtermCsiMapping, Mapping |-> XtermControlMapping]
    /\ readLog = <<>> /\ windows = <<>> /\ gotLog = <<>> /\ lateReads = <<>>
    /\ host = PosixHost /\ stopReads = <<>> /\ ui = None

PipeInit == PipeStart /\ typed = <<>>

At(t, label) == pc[t] = label /\ call[t].op = "none"

\* KeyboardListener has executed Buffer.deactivate() (line 306)
MainDeactivated == pc["main"] \in {"empty", "join", "done"}

\* KeystrokesListener has executed InBuffer.deactivate() (line 268)
RawClosed == pc["decoder"] \in {"empty", "join", "done"}

Goto(t, label) == pc' = [pc EXCEPT ![t] = label]

\* fault variant: join returns at once
Ended_nowait(t) == TRUE

Ended(t) == pc[t] \in {"done", "raised"}

\* thread t executes the next statement of the put or get it is in
PipeCall(t) ==
    /\ call[t].op # "none"
    /\ CallEnabled(queues[call[t].q], call[t])
    /\ LET r == CallStep(queues[call[t].q], call[t], t)
           over == r.c.op = "none"
       IN  /\ queues' = [queues EXCEPT ![call[t].q] = r.q]
           /\ call' = [call EXCEPT ![t] = r.c]
           /\ ret' = IF over THEN [ret EXCEPT ![t] = r.Result] ELSE ret
           /\ pc' = IF over /\ r.Result = IndexError
                    THEN [pc EXCEPT ![t] = "raised"] ELSE pc
    /\ UNCHANGED <<hist, concVars, pipeVars>>

MainCall == PipeCall("main")

DecoderCall == PipeCall("decoder")

ReaderCall == PipeCall("reader")

(***************************************************************************)
(* StdinListener (keystroke_posix.py lines 180-209).                       *)
(***************************************************************************)
\* fault variant: the snapshot is taken after the switch to cbreak
capture_cbreak(tm) == [tm EXCEPT !.original_settings = "cbreak"]

\* termios.tcgetattr(sys.stdin): the snapshot of the current mode
capture(tm) == [tm EXCEPT !.original_settings = tm.mode]

\* termios.tcsetattr(sys.stdin, termios.TCSADRAIN, original_settings)
restore(tm) ==
    [tm EXCEPT !.mode = tm.original_settings, !.restored = @ + 1]

\* fault variant: no finally block
after_except_return == "done"

\* where an exception raised inside the try block continues
after_except == "finally"

\* line 197, outside the try block: an error ends the thread
ReaderGetattr ==
    /\ At("reader", "tcgetattr")
    /\ \E outcome \in {"ok", "raise"} :
        IF outcome = "ok"
        THEN /\ term' = capture(term)
             /\ Goto("reader", "setcbreak")
        ELSE /\ term' = [term EXCEPT !.raised = "tcgetattr"]
             /\ Goto("reader", "raised")
    /\ UNCHANGED <<ui, stopReads, host, typed, lateReads, queues, call, ret, hist, concVars, Input, Entries, Key,
                   StopKey, tables, readLog, windows, gotLog>>

\* line 200
ReaderSetcbreak ==
    /\ At("reader", "setcbreak")
    /\ \E outcome \in {"ok", "raise"} :
        IF outcome = "ok"
        THEN /\ term' = [term EXCEPT !.mode = "cbreak"]
             /\ Goto("reader", "while")
        ELSE /\ term' = [term EXCEPT !.raised = "setcbreak"]
             /\ Goto("reader", after_except)
    /\ UNCHANGED <<ui, stopReads, host, typed, lateReads, queues, call, ret, hist, concVars, Input, Entries, Key,
                   StopKey, tables, readLog, windows, gotLog>>

\* line 202
ReaderWhile ==
    /\ At("reader", "while")
    /\ IF IsActive(queues["InBuffer"])
       THEN Goto("reader", "read")
       ELSE Goto("reader", "finally")
    /\ UNCHANGED <<queues, call, ret, hist, concVars, pipeVars>>

\* lines 203-204: the blocking read returns the character b, which is put
ReaderGot(b) ==
    /\ At("reader", "read")
    /\ readLog' = Append(readLog, b)
    /\ lateReads' = IF RawClosed THEN Append(lateReads, b) ELSE lateReads
    /\ call' = [call EXCEPT !["reader"] = PutCall("InBuffer", Str(<<b>>))]
    /\ Goto("reader", "while")
    /\ UNCHANGED <<queues, ret, hist, concVars, Input, Entries, Key, StopKey,
                   term, tables, windows, gotLog, typed, host, ui>>

\* the terminal delivers any character of Alphabet
ReaderRead ==
    /\ Len(readLog) < MaxReads
    /\ \E b \in Alphabet : ReaderGot(b)
    /\ stopReads' = stopReads

\* the terminal delivers the next character of the text typed
ReaderReadTyped ==
    /\ Len(readLog) < Len(typed)
    /\ ReaderGot(typed[Len(readLog) + 1])
    /\ stopReads' = stopReads

\* the same, noting the characters that arrive after line 306
ReaderReadStop ==
    /\ Len(readLog) < Len(typed)
    /\ ReaderGot(typed[Len(readLog) + 1])
    /\ stopReads' = IF MainDeactivated
                    THEN Append(stopReads, typed[Len(readLog) + 1])
                    ELSE stopReads

\* line 203 raises: lines 205-206
ReaderReadError ==
    /\ At("reader", "read")
    /\ term' = [term EXCEPT !.raised = "read"]
    /\ Goto("reader", after_except)
    /\ UNCHANGED <<ui, stopReads, host, typed, lateReads, queues, call, ret, hist, concVars, Input, Entries, Key,
                   StopKey, tables, readLog, windows, gotLog>>

\* lines 207-209
ReaderFinally ==
    /\ At("reader", "finally")
    /\ term' = restore(term)
    /\ Goto("reader", "done")
    /\ UNCHANGED <<ui, stopReads, host, typed, lateReads, queues, call, ret, hist, concVars, Input, Entries, Key,
                   StopKey, tables, readLog, windows, gotLog>>

(***************************************************************************)
(* KeystrokesListener (keystroke_posix.py lines 211-270).                  *)
(***************************************************************************)
\* lines 241-245
DecoderStart ==
    /\ At("decoder", "start")
    /\ queues' = [queues EXCEPT !["InBuffer"] = activate(NewInputBuffer)]
    /\ pc' = [pc EXCEPT !["decoder"] = "while", !["reader"] = "tcgetattr"]
    /\ Input' = <<>>
    /\ UNCHANGED <<ui, stopReads, host, typed, lateReads, call, ret, hist, concVars, Entries, Key, StopKey, term,
                   tables, readLog, windows, gotLog>>

\* fault variant: the loop tests the raw queue
polls_raw_queue(qs) == IsActive(qs["InBuffer"])

\* the condition of the polling loop, line 246
polls(qs) == IsActive(qs["Buffer"])

DecoderWhile ==
    /\ At("decoder", "while")
    /\ IF polls(queues)
       THEN Goto("decoder", "drain")
       ELSE Goto("decoder", "deactivate")
    /\ UNCHANGED <<queues, call, ret, hist, concVars, pipeVars>>

\* line 247 finds an item: the get of line 248 is entered
DecoderDrain ==
    /\ At("decoder", "drain")
    /\ IsNotEmpty(queues["InBuffer"])
    /\ call' = [call EXCEPT !["decoder"] = GetCall("InBuffer")]
    /\ Goto("decoder", "concat")
    /\ UNCHANGED <<queues, ret, hist, concVars, pipeVars>>

\* line 248: Input += <the value got>; None cannot be added to a str.
\* (The value returned is a temporary: it is dropped once used.)
DecoderConcat ==
    /\ At("decoder", "concat")
    /\ IF ret["decoder"].type = "str"
       THEN /\ Input' = Input \o ret["decoder"].val
            /\ Goto("decoder", "drain")
       ELSE /\ Input' = Input
            /\ Goto("decoder", "raised")
    /\ ret' = [ret EXCEPT !["decoder"] = None]
    /\ UNCHANGED <<ui, stopReads, host, typed, lateReads, queues, call, hist, concVars, Entries, Key, StopKey,
                   term, tables, readLog, windows, gotLog>>

\* line 247 finds nothing: lines 249-265 compute what is to be put
DecoderClassify ==
    /\ At("decoder", "drain")
    /\ ~IsNotEmpty(queues["InBuffer"])
    /\ IF Input = <<>>
       THEN /\ Goto("decoder", "sleep")
            /\ UNCHANGED <<ui, stopReads, host, typed, lateReads, Entries, windows>>
       ELSE LET r == Classify(Input, tables.Csi, tables.Mapping)
            IN  /\ windows' = Append(windows, Input)
                /\ IF r.ok
                   THEN /\ Entries' = r.val
                        /\ Goto("decoder", IF r.val = <<>> THEN "sleep" ELSE "emit")
                   ELSE /\ Entries' = <<>>
                        /\ Goto("decoder", "raised")
    /\ UNCHANGED <<ui, stopReads, host, typed, lateReads, queues, call, ret, hist, concVars, Input, Key, StopKey, term,
                   tables, readLog, gotLog>>

\* Buffer.put(Entry) of lines 255, 257, 262, 265 for the next entry
DecoderEmit ==
    /\ At("decoder", "emit")
    /\ call' = [call EXCEPT !["decoder"] = PutCall("Buffer", Head(Entries))]
    /\ Entries' = Tail(Entries)
    /\ Goto("decoder", IF Tail(Entries) = <<>> THEN "sleep" ELSE "emit")
    /\ UNCHANGED <<ui, stopReads, host, typed, lateReads, queues, ret, hist, concVars, Input, Key, StopKey, term,
                   tables, readLog, windows, gotLog>>

\* fault variant: the accumulator is kept for the next poll
keep_input(acc) == acc

\* line 266: Input = ''
clear_input(acc) == <<>>

\* lines 266-267
DecoderSleep ==
    /\ At("decoder", "sleep")
    /\ Input' = clear_input(Input)
    /\ Goto("decoder", "while")
    /\ UNCHANGED <<ui, stopReads, host, typed, lateReads, queues, call, ret, hist, concVars, Entries, Key, StopKey,
                   term, tables, readLog, windows, gotLog>>

\* line 268
DecoderDeactivate ==
    /\ At("decoder", "deactivate")
    /\ queues' = [queues EXCEPT !["InBuffer"] = deactivate(@)]
    /\ Goto("decoder", "empty")
    /\ UNCHANGED <<call, ret, hist, concVars, pipeVars>>

\* line 269
DecoderEmpty ==
    /\ At("decoder", "empty")
    /\ queues' = [queues EXCEPT !["InBuffer"] = empty(@)]
    /\ Goto("decoder", "join")
    /\ UNCHANGED <<call, ret, hist, concVars, pipeVars>>

\* line 270
DecoderJoin ==
    /\ At("decoder", "join")
    /\ Ended("reader")
    /\ Goto("decoder", "done")
    /\ UNCHANGED <<queues, call, ret, hist, concVars, pipeVars>>

(***************************************************************************)
(* KeyboardListener (keystroke_posix.py lines 272-309).                    *)
(***************************************************************************)
\* lines 292-297
MainStart ==
    /\ At("main", "start")
    /\ queues' = [queues EXCEPT !["Buffer"] = activate(NewInputBuffer)]
    /\ pc' = [pc EXCEPT !["main"] = "while", !["decoder"] = "start"]
    /\ Key' = Str(<<>>)
    /\ UNCHANGED <<ui, stopReads, host, typed, lateReads, call, ret, hist, concVars, Input, Entries, StopKey, term,
                   tables, readLog, windows, gotLog>>

\* lines 298-300: the loop test, the test of IsNotEmpty and the entry into get
MainWhile ==
    /\ At("main", "while")
    /\ IF Key = StopKey
       THEN /\ Goto("main", "deactivate")
            /\ call' = call
       ELSE IF IsNotEmpty(queues["Buffer"])
            THEN /\ call' = [call EXCEPT !["main"] = GetCall("Buffer")]
                 /\ Goto("main", "assign")
            ELSE /\ call' = call
                 /\ Goto("main", "while")
    /\ UNCHANGED <<queues, ret, hist, concVars, pipeVars>>

\* line 300: Key = <the value got>
MainAssign ==
    /\ At("main", "assign")
    /\ Key' = ret["main"]
    /\ gotLog' = Append(gotLog, ret["main"])
    /\ ret' = [ret EXCEPT !["main"] = None]
    /\ Goto("main", "while")
    /\ UNCHANGED <<ui, stopReads, host, typed, lateReads, queues, call, hist, concVars, Input, Entries, StopKey,
                   term, tables, readLog, windows>>

\* line 306
MainDeactivate ==
    /\ At("main", "deactivate")
    /\ queues' = [queues EXCEPT !["Buffer"] = deactivate(@)]
    /\ Goto("main", "empty")
    /\ UNCHANGED <<call, ret, hist, concVars, pipeVars>>

\* line 307
MainEmpty ==
    /\ At("main", "empty")
    /\ queues' = [queues EXCEPT !["Buffer"] = empty(@)]
    /\ Goto("main", "join")
    /\ UNCHANGED <<call, ret, hist, concVars, pipeVars>>

\* line 308
MainJoin ==
    /\ At("main", "join")
    /\ Ended("decoder")
    /\ Goto("main", "done")
    /\ UNCHANGED <<queues, call, ret, hist, concVars, pipeVars>>

ReaderNext ==
    \/ ReaderGetattr \/ ReaderSetcbreak \/ ReaderWhile \/ ReaderRead
    \/ ReaderReadError \/ ReaderFinally \/ ReaderCall

DecoderNext ==
    \/ DecoderStart \/ DecoderWhile \/ DecoderDrain \/ DecoderConcat
    \/ DecoderClassify \/ DecoderEmit \/ DecoderSleep \/ DecoderDeactivate
    \/ DecoderEmpty \/ DecoderJoin \/ DecoderCall

MainNext ==
    \/ MainStart \/ MainWhile \/ MainAssign \/ MainDeactivate \/ MainEmpty
    \/ MainJoin \/ MainCall

PipeNext == ReaderNext \/ DecoderNext \/ MainNext

SpecPipe == PipeInit /\ [][PipeNext]_vars

(***************************************************************************)
(* SpecTyped: one listening session in which the user types a given text.  *)
(* The threads are those of SpecPipe; the reader gets the characters of    *)
(* the text, and every system call of the reader can raise.                *)
(***************************************************************************)
TypedLen == 4       \* how many characters the user types

\* ESC, '[', 'A', ESC, '[', ... from the k-th of them on
KeyCycle(k) == <<ESC, 91, 65>>[(k % 3) + 1]

TypedTexts == {[i \in 1..TypedLen |-> KeyCycle(i + k)] : k \in 0..2}

TypedInit == PipeStart /\ typed \in TypedTexts

TypedReaderNext ==
    \/ ReaderGetattr \/ ReaderSetcbreak \/ ReaderWhile \/ ReaderReadTyped
    \/ ReaderReadError \/ ReaderFinally \/ ReaderCall

TypedNext == TypedReaderNext \/ DecoderNext \/ MainNext

SpecTyped == TypedInit /\ [][TypedNext]_vars

(***************************************************************************)
(* SpecStop: the end of a listening session.  The threads are those of     *)
(* SpecTyped and the user types 'A', ESC, '[', ...; a thread that can run  *)
(* does run (threading.Thread, started on lines 243 and 296), while        *)
(* sys.stdin.read(1) of line 203 returns only when the user presses a key, *)
(* which nothing obliges them to do.                                       *)
(***************************************************************************)
StopLen == 3        \* how many characters the user types

StopInit == PipeStart /\ typed = [i \in 1..StopLen |-> KeyCycle(i + 1)]

\* the statements of StdinListener that do not wait for the terminal
ReaderRuns ==
    \/ ReaderGetattr \/ ReaderSetcbreak \/ ReaderWhile \/ ReaderFinally
    \/ ReaderCall

StopReaderNext == ReaderRuns \/ ReaderReadStop \/ ReaderReadError

StopNext == StopReaderNext \/ DecoderNext \/ MainNext

SpecStop ==
    /\ StopInit /\ [][StopNext]_vars
    /\ WF_vars(ReaderRuns) /\ WF_vars(DecoderNext) /\ WF_vars(MainNext)

(***************************************************************************)
(* SpecLoad: a process imports one of the platform modules and, once the   *)
(* module is loaded, runs KeyboardListener.  The statements at module      *)
(* level are executed by the thread "main" before anything else.           *)
(***************************************************************************)
\* the values of os.name
OsNames == {"posix", "nt", "java"}

\* the values of $TERM: two xterm types, another terminal, and not set
TermNames == {"xterm-new", "xterm-256color", "vt100", ""}

\* what the user types in the session that follows the import: ESC, 'A'
LoadText == <<ESC, 65>>

\* fault variant: vt100 is taken for an xterm
XTERM_NEW_vt100 ==
    {Bytes(<<"xterm-new">>), Bytes(<<"xterm-256color">>), Bytes(<<"vt100">>)}

\* line 63; a bytes object is the sequence of its pieces
XTERM_NEW == {Bytes(<<"xterm-new">>), Bytes(<<"xterm-256color">>)}

\* what 'echo $TERM' writes: the value and a newline
check_output(TERM) == IF TERM = "" THEN <<"\n">> ELSE <<TERM, "\n">>

\* Data[:-1]
ButLast(Data) == SubSeq(Data, 1, Len(Data) - 1)

\* keystroke_posix line 43: the condition under which the module exits
PosixExits(os) == os # "posix"

\* keystroke_windows line 27: the condition under which the module exits
WindowsExits(os) == os = "nt"

\* termios and tty exist on POSIX systems, msvcrt on Windows
HasModule(name, os) ==
    IF name = "msvcrt" THEN os = "nt" ELSE os = "posix"

LoadInit ==
    /\ queues = [q \in {"Buffer", "InBuffer"} |-> NewInputBuffer]
    /\ pc = [t \in PipeThreads |-> IF t = "main" THEN "os_check" ELSE "unstarted"]
    /\ call = [t \in PipeThreads |-> NoCall]
    /\ ret = [t \in PipeThreads |-> None]
    /\ hist = <<>>
    /\ steady = FALSE /\ putLog = <<>> /\ getLog = <<>>
    /\ Input = <<>> /\ Entries = <<>>
    /\ Key = Str(<<>>)
    /\ StopKey \in StopKeys
    /\ term = NewTerminal
    /\ tables = None
    /\ readLog = <<>> /\ windows = <<>> /\ gotLog = <<>> /\ lateReads = <<>>
    /\ typed = LoadText /\ stopReads = <<>> /\ ui = None
    /\ host \in [module : {"keystroke_posix", "keystroke_windows"},
                 os : OsNames, TERM : TermNames, TerminalType : {None},
                 reported : {"none"}, status : {"running"}]

\* print(...); sys.exit(1)
Exit(what) ==
    /\ host' = [host EXCEPT !.reported = what, !.status = "exit 1"]
    /\ Goto("main", "exited")

\* keystroke_posix lines 43-45, keystroke_windows lines 27-29
LoadOsCheck ==
    /\ At("main", "os_check")
    /\ IF host.module = "keystroke_posix"
       THEN IF PosixExits(host.os)
            THEN Exit("os")
            ELSE host' = host /\ Goto("main", "imports")
       ELSE IF WindowsExits(host.os)
            THEN Exit("os")
            ELSE host' = host /\ Goto("main", "imports")
    /\ UNCHANGED <<queues, call, ret, hist, concVars, Input, Entries, Key,
                   StopKey, term, tables, readLog, windows, gotLog, typed,
                   lateReads, stopReads, ui>>

\* keystroke_posix lines 47-57, keystroke_windows lines 31-38: an import of a
\* module the system does not have raises ModuleNotFoundError
LoadImports ==
    /\ At("main", "imports")
    /\ IF host.module = "keystroke_posix"
       THEN IF HasModule("termios", host.os)
            THEN host' = host /\ Goto("main", "terminal")
            ELSE /\ host' = [host EXCEPT !.status = "ModuleNotFoundError"]
                 /\ Goto("main", "raised")
       ELSE IF HasModule("msvcrt", host.os)
            THEN host' = host /\ Goto("main", "loaded")
            ELSE /\ host' = [host EXCEPT !.status = "ModuleNotFoundError"]
                 /\ Goto("main", "raised")
    /\ UNCHANGED <<queues, call, ret, hist, concVars, Input, Entries, Key,
                   StopKey, term, tables, readLog, windows, gotLog, typed,
                   lateReads, stopReads, ui>>

\* keystroke_posix line 67
LoadTerminal ==
    /\ At("main", "terminal")
    /\ host' = [host EXCEPT !.TerminalType =
                            Bytes(ButLast(check_output(host.TERM)))]
    /\ Goto("main", "select")
    /\ UNCHANGED <<queues, call, ret, hist, concVars, Input, Entries, Key,
                   StopKey, term, tables, readLog, windows, gotLog, typed,
                   lateReads, stopReads, ui>>

\* keystroke_posix lines 69-74; KeyboardListener is entered once the module
\* is loaded (line 314)
LoadSelect ==
    /\ At("main", "select")
    /\ IF host.TerminalType \in XTERM_NEW
       THEN /\ tables' = [Csi |-> XtermCsiMapping, Mapping |-> XtermControlMapping]
            /\ host' = host
            /\ Goto("main", "start")
       ELSE /\ tables' = tables
            /\ Exit("terminal")
    /\ UNCHANGED <<queues, call, ret, hist, concVars, Input, Entries, Key,
                   StopKey, term, readLog, windows, gotLog, typed, lateReads,
                   stopReads, ui>>

LoadNext ==
    \/ LoadOsCheck \/ LoadImports \/ LoadTerminal \/ LoadSelect
    \/ TypedNext

SpecLoad == LoadInit /\ [][LoadNext]_vars

\* no listener thread was started and no queue was opened or used
NothingStarted ==
    /\ pc["decoder"] = "unstarted"
    /\ pc["reader"] = "unstarted"
    /\ queues = [q \in {"Buffer", "InBuffer"} |-> NewInputBuffer]
    /\ readLog = <<>>
    /\ term = NewTerminal

\* C23: when the terminal type keystroke_posix detects is not 'xterm-new' or
\* 'xterm-256color', the process exits with status 1 at module load, after
\* reporting the type, and neither the reader nor the decoder is ever
\* started.
C23_UnsupportedTerminalExits ==
    (/\ host.module = "keystroke_posix"
     /\ host.TerminalType # None
     /\ host.TerminalType.val \notin {<<"xterm-new">>, <<"xterm-256color">>})
        => /\ pc["main"] \in {"select", "exited"}
           /\ pc["main"] = "exited"
                => host.reported = "terminal" /\ host.status = "exit 1"
           /\ NothingStarted

\* $TERM is vt100 and the process has exited
C23_Witness ==
    /\ host.module = "keystroke_posix"
    /\ host.TerminalType = Bytes(<<"vt100">>)
    /\ pc["main"] = "exited"

\* the operating system the module is written for
OwnOs(module) == IF module = "keystroke_posix" THEN "posix" ELSE "nt"

\* C24: each platform module lets its pipeline start only on its own
\* operating system: once the test of os.name is done, the module has
\* reported and exited if and only if the system is not its own, and after
\* that report nothing is ever started.
C24_OwnOsOnly ==
    pc["main"] # "os_check"
        => /\ (host.reported = "os") = (host.os # OwnOs(host.module))
           /\ host.reported = "os"
                => pc["main"] = "exited" /\ NothingStarted

(***************************************************************************)
(* Claims about one listening session (SpecPipe, SpecTyped).               *)
(***************************************************************************)
\* C7: on every exit path of StdinListener (raw queue closed, exception raised
\* by the mode switch or by the read) the terminal mode captured at entry is
\* restored before the reader returns, and after a failed read the reader is
\* out of its loop with no put under way for that read.
C7_RestoredOnEveryExit ==
    /\ pc["reader"] = "done"
        => /\ term.restored >= 1
           /\ term.mode = term.original_settings
    /\ Ended("reader") => term.mode = "canonical"
    /\ term.raised \in {"setcbreak", "read"}
        => /\ pc["reader"] \in {"finally", "done"}
           /\ call["reader"] = NoCall

\* the reader returned after a read that failed in cbreak mode, with
\* characters read before it
C7_Witness ==
    /\ pc["reader"] = "done"
    /\ term.raised = "read"
    /\ Len(readLog) >= 1

\* C8: within one reader session the snapshot of the terminal mode is taken
\* before the switch to cbreak mode, and the restore is executed exactly once.
C8_RestoredExactlyOnce ==
    /\ term.mode = "cbreak" => term.original_settings = "canonical"
    /\ pc["reader"] \in {"setcbreak", "while", "read", "finally", "done"}
        => term.original_settings = "canonical"
    /\ term.restored <= 1
    /\ (pc["reader"] = "done") <=> (term.restored = 1)

\* a session that read characters and ended because the raw queue was closed
C8_Witness ==
    /\ pc["reader"] = "done"
    /\ term.raised = "none"
    /\ term.restored = 1
    /\ Len(readLog) >= 1

RECURSIVE Flatten(_)
Flatten(ss) == IF ss = <<>> THEN <<>> ELSE Head(ss) \o Flatten(Tail(ss))

\* the entries classified from the given accumulators, window after window
RECURSIVE WindowEntries(_)
WindowEntries(ws) ==
    IF ws = <<>> THEN <<>>
    ELSE LET r == Classify(Head(ws), tables.Csi, tables.Mapping)
         IN  IF r.ok THEN r.val \o WindowEntries(Tail(ws)) ELSE <<>>

\* C9: under any interleaving of reader, decoder and consumer the events the
\* consumer obtains are in the order in which the characters they were decoded
\* from were read: the polling windows are consecutive pieces of what was read,
\* and what the consumer got is a prefix of the windows' entries in order.
C9_EndToEndOrder ==
    /\ IsPrefix(Flatten(windows), readLog)
    /\ IsPrefix(gotLog, WindowEntries(windows))

\* the consumer got entries of two polling windows
C9_Witness ==
    /\ Len(windows) >= 2
    /\ Len(gotLog) >= 2
    /\ Len(gotLog) > Len(WindowEntries(<<windows[1]>>))
    /\ gotLog[1] # gotLog[2]

\* C10: once the consumer has closed the event queue the decoder leaves its
\* polling loop at the next evaluation of the loop condition, then closes and
\* empties the raw queue; nothing put afterwards can be obtained by the
\* consumer.
C10_Cancellation ==
    /\ [][(At("decoder", "while") /\ pc'["decoder"] # "while")
            => pc'["decoder"] = IF IsActive(queues["Buffer"])
                                THEN "drain" ELSE "deactivate"]_vars
    /\ [][(At("decoder", "deactivate") /\ pc'["decoder"] # "deactivate")
            => /\ ~IsActive(queues'["InBuffer"])
               /\ pc'["decoder"] = "empty"]_vars
    /\ [][(At("decoder", "empty") /\ pc'["decoder"] # "empty")
            => /\ ~IsNotEmpty(queues'["InBuffer"])
               /\ pc'["decoder"] = "join"]_vars
    /\ [](MainDeactivated => ~IsActive(queues["Buffer"]))
    /\ [][MainDeactivated => gotLog' = gotLog]_vars
    /\ [][(MainDeactivated /\ call["main"].op = "none" /\ call'["main"].op = "get")
            => FALSE]_vars

\* the decoder has left its loop and returned; an entry it was putting when
\* the event queue was closed sits in the closed queue
C10_Witness ==
    /\ MainDeactivated
    /\ pc["decoder"] = "done"
    /\ Len(queues["Buffer"].Buffer) > 0

\* C11: after the raw queue is deactivated the reader completes at most one
\* more blocking read and then leaves its loop; the character obtained by that
\* read is not enqueued: its put never reaches the append, and the raw queue
\* holds no more than the characters read before and not yet classified.
C11_AtMostOneLateRead ==
    /\ Len(lateReads) <= 1
    /\ Len(lateReads) = 1
        => /\ pc["reader"] \in {"while", "finally", "done"}
           /\ call["reader"].op = "put"
                => /\ call["reader"].at \in {"lock", "test"}
                   /\ call["reader"].Data = Str(lateReads)
                   /\ pc["reader"] = "while"
           /\ Len(queues["InBuffer"].Buffer)
                <= Len(readLog) - Len(lateReads) - Len(Flatten(windows))

\* the reader was blocked in a read when the raw queue was closed, got one
\* more character and returned
C11_Witness ==
    /\ Len(lateReads) = 1
    /\ pc["reader"] = "done"
    /\ term.raised = "none"
    /\ Len(readLog) >= 2

\* the events put into the open event queue so far: those the consumer got,
\* the one it holds and has not assigned yet, and the stored ones
Emitted ==
    gotLog \o (IF ret["main"] # None THEN <<ret["main"]>> ELSE <<>>)
           \o queues["Buffer"].Buffer

\* C17: the accumulator does not persist across polls: every poll starts with
\* an empty accumulator, and when ESC is drained in one poll window and '[',
\* 'A' in the next, the decoder enqueues the ControlCode ESC for the first
\* window and the strings '[' and 'A' for the second, in that order.
C17_NoCarryOver ==
    /\ pc["decoder"] = "while" => Input = <<>>
    /\ \A i \in 1..(Len(windows) - 1) :
        LET n == Len(WindowEntries(SubSeq(windows, 1, i - 1)))
        IN  (/\ windows[i] = <<ESC>>
             /\ windows[i + 1] = <<91, 65>>
             /\ IsActive(queues["Buffer"])
             /\ Len(Emitted) >= n + 3)
                => /\ Emitted[n + 1].type = "ControlCode"
                   /\ Emitted[n + 1].Name = "ESC"
                   /\ Emitted[n + 2] = Str(<<91>>)
                   /\ Emitted[n + 3] = Str(<<65>>)

\* ESC was classified alone, '[' and 'A' in the next window, and the consumer
\* got the three events
C17_Witness ==
    /\ windows = <<(<<ESC>>), <<91, 65>>>>
    /\ Len(gotLog) = 3
    /\ pc["decoder"] = "while"

\* C20: queue operations do not block: the lock of a queue is held only by a
\* thread inside the locked part of a put or get on that queue, which never
\* waits there, so no thread waits for a lock that is not about to be
\* released and no two threads wait for each other; a get that finds nothing
\* takes no lock; the decoder can always take its next step (with a non-empty
\* accumulator and nothing left to drain the step is the classification, which
\* returns or raises) unless it waits for such a lock or in the final join.
C20_NonBlocking ==
    /\ \A q \in DOMAIN queues :
        queues[q].Lock # "free"
            => /\ queues[q].Lock \in PipeThreads
               /\ call[queues[q].Lock].q = q
               /\ call[queues[q].Lock].at \in {"test", "append", "pop"}
    /\ \A t \in PipeThreads :
        call[t].op = "none" => \A q \in DOMAIN queues : queues[q].Lock # t
    /\ \A t \in PipeThreads :
        (call[t].op # "none" /\ ~CallEnabled(queues[call[t].q], call[t]))
            => /\ queues[call[t].q].Lock # t
               /\ ENABLED PipeCall(queues[call[t].q].Lock)
    /\ At("decoder", "start") => ENABLED DecoderStart
    /\ At("decoder", "while") => ENABLED DecoderWhile
    /\ At("decoder", "drain")
        => IF IsNotEmpty(queues["InBuffer"]) THEN ENABLED DecoderDrain
           ELSE IF Input = <<>> THEN ENABLED DecoderClassify
           ELSE Classify(Input, tables.Csi, tables.Mapping).ok \in BOOLEAN
    /\ At("decoder", "concat") => ENABLED DecoderConcat
    /\ At("decoder", "emit") => ENABLED DecoderEmit
    /\ At("decoder", "sleep") => ENABLED DecoderSleep
    /\ At("decoder", "deactivate") => ENABLED DecoderDeactivate
    /\ At("decoder", "empty") => ENABLED DecoderEmpty
    /\ (call["decoder"].op # "none" /\ ~ENABLED DecoderCall)
        => /\ call["decoder"].at = "lock"
           /\ queues[call["decoder"].q].Lock \in {"main", "reader"}

\* the decoder waits for the lock of the event queue, which the consumer
\* holds inside get, while the reader holds the lock of the raw queue
C20_Witness ==
    /\ call["decoder"].at = "lock"
    /\ call["decoder"].q = "Buffer"
    /\ queues["Buffer"].Lock = "main"
    /\ call["main"].at = "pop"
    /\ queues["InBuffer"].Lock = "reader"

\* C25: if the switch of the terminal to cbreak mode fails, the pipeline does
\* not run: from the failure on the decoder begins no polling iteration and
\* the consumer obtains nothing from the event queue.
C25_NoPollAfterFailedSwitch ==
    [][term.raised = "setcbreak"
        => /\ ~(At("decoder", "while") /\ pc'["decoder"] = "drain")
           /\ gotLog' = gotLog]_vars

\* the characters of the strings ss, in order
Chars(ss) == Flatten([i \in 1..Len(ss) |-> ss[i].val])

\* the characters read that the running poll iteration has drained so far:
\* the accumulator, and the character got and not yet added to it
Draining ==
    (IF pc["decoder"] \in {"drain", "concat"} THEN Input ELSE <<>>)
        \o (IF ret["decoder"].type = "str" THEN ret["decoder"].val ELSE <<>>)

\* the characters read that are not drained yet: those stored in the raw
\* queue, then the one the reader is putting
NotDrained ==
    Chars(queues["InBuffer"].Buffer)
        \o (IF call["reader"].op = "put" THEN call["reader"].Data.val ELSE <<>>)

\* C30: while both queues are active every character the reader enqueues is
\* drained by exactly one poll iteration of the decoder: the characters read
\* are, in order, those of the accumulators classified by the iterations
\* over, those drained by the running iteration and those not drained yet,
\* so none is drained twice and none is skipped; and an iteration leaves its
\* drain loop only when the raw queue is empty.
C30_DrainedOnce ==
    /\ []((IsActive(queues["Buffer"]) /\ IsActive(queues["InBuffer"]))
            => readLog = Flatten(windows) \o Draining \o NotDrained)
    /\ [][(/\ pc["decoder"] = "drain"
           /\ pc'["decoder"] \notin {"drain", "concat"})
            => ~IsNotEmpty(queues["InBuffer"])]_vars

\* two iterations have drained three characters, two of them in one
\* iteration, and a fourth waits in the raw queue
C30_Witness ==
    /\ IsActive(queues["Buffer"]) /\ IsActive(queues["InBuffer"])
    /\ Len(windows) = 2
    /\ Len(windows[1]) = 2
    /\ Len(queues["InBuffer"].Buffer) = 1
    /\ pc["decoder"] = "while"

\* StdinListener has returned, or has ended with the error of line 197
ReaderExited == pc["reader"] \in {"done", "raised"}

C32_DrainGetsItem ==
    /\ At("decoder", "concat") => ret["decoder"].type = "str"
    /\ pc["decoder"] # "raised"

\* the get has returned a character while the reader is inside a put, past
\* its test of the flag
C32_Witness ==
    /\ At("decoder", "concat") /\ ret["decoder"].type = "str"
    /\ call["reader"].op = "put" /\ call["reader"].at = "append"

\* C33: once its consuming side has executed deactivate() and then empty()
\* (lines 268-269 for the raw queue, lines 306-307 for the event queue), a
\* queue holds nothing, whatever put was in progress.
C33_EmptyAfterTeardown ==
    /\ pc["decoder"] \in {"join", "done"} => queues["InBuffer"].Buffer = <<>>
    /\ pc["main"] \in {"join", "done"} => queues["Buffer"].Buffer = <<>>

(***************************************************************************)
(* SpecDecode: one polling window of KeystrokesListener.  The accumulator  *)
(* Input holds what the drain loop of lines 247-248 collected; the decoder *)
(* classifies it and puts the entries into the open output queue, which    *)
(* nobody reads meanwhile.                                                 *)
(***************************************************************************)
MaxWin == 4         \* longest accumulator over WindowAlphabet

\* ESC, TAB, SPACE, 'A', '[', 'x' and U+00E9
WindowAlphabet == {ESC, 9, 32, 65, 91, 120, 233}

RECURSIVE SeqsOfLen(_, _)
SeqsOfLen(S, n) ==
    IF n = 0 THEN {<<>>}
    ELSE {<<c>> \o t : c \in S, t \in SeqsOfLen(S, n - 1)}

\* the accumulators explored: every ASCII character alone, ESC followed by
\* every printable ASCII character, every string of 2..MaxWin characters of
\* WindowAlphabet
Windows ==
    {<<c>> : c \in 0..127} \cup {<<ESC, b>> : b \in 32..126}
        \cup UNION {SeqsOfLen(WindowAlphabet, n) : n \in 2..MaxWin}

WindowTables ==
    {[Csi |-> XtermCsiMapping, Mapping |-> XtermControlMapping],
     [Csi |-> AltTabCsiMapping, Mapping |-> XtermControlMapping]}

DecodeThreads == {"decoder"}

\* the decoder has drained one of the accumulators W and the tables imported
\* are one of T
DecodeStart(W, T) ==
    /\ queues = [q \in {"Buffer", "InBuffer"} |-> activate(NewInputBuffer)]
    /\ pc = [t \in DecodeThreads |-> "drain"]
    /\ call = [t \in DecodeThreads |-> NoCall]
    /\ ret = [t \in DecodeThreads |-> None]
    /\ hist = <<>>
    /\ steady = FALSE /\ putLog = <<>> /\ getLog = <<>>
    /\ Input \in W
    /\ Entries = <<>>
    /\ Key = Str(<<>>) /\ StopKey = Str(<<>>)
    /\ term = NewTerminal
    /\ tables \in T
    /\ readLog = Input /\ windows = <<>> /\ gotLog = <<>> /\ lateReads = <<>>
    /\ typed = <<>> /\ host = PosixHost /\ stopReads = <<>> /\ ui = None

DecodeInit == DecodeStart(Windows, WindowTables)

DecodeNext == DecoderClassify \/ DecoderEmit \/ DecoderCall \/ DecoderSleep

SpecDecode == DecodeInit /\ [][DecodeNext]_vars

(***************************************************************************)
(* SpecTables: one polling window of KeystrokesListener under lookup       *)
(* tables of any content: the key-combination table may lack the entry of  *)
(* a control code name.                                                    *)
(***************************************************************************)
\* ESC, TAB and 'A'
TableAlphabet == {ESC, 9, 65}

\* the accumulators explored: every string of 2..MaxWin characters of
\* TableAlphabet
TableWindows == UNION {SeqsOfLen(TableAlphabet, n) : n \in 2..MaxWin}

\* ASCII_CONTROL_MAPPING without the entry of the name n
Without(n) == [m \in ControlNames \ {n} |-> XtermControlMapping[m]]

AnyTables ==
    {[Csi |-> c, Mapping |-> m] :
        c \in {XtermCsiMapping, AltTabCsiMapping},
        m \in {XtermControlMapping, Without("TAB"), Without("ESC")}}

TablesInit == DecodeStart(TableWindows, AnyTables)

SpecTables == TablesInit /\ [][DecodeNext]_vars

\* C22: classification cannot fail: whatever the accumulator of two
\* characters or more and whatever the content of the lookup tables,
\* ParseEscapeSequence and SplitCharacters return and the decoder goes on;
\* no exception ends the decoder.
C22_ClassifyReturns == pc["decoder"] # "raised"

\* C34: for every character of a window that was classified and whatever the
\* content of the key-combination table, the single-character branch of the
\* decoder (lines 249-257) and SplitCharacters give the same outcome for the
\* character: the same event, or a failure in both.
C34_SameAloneAndTogether ==
    windows # <<>> =>
        \A i \in 1..Len(windows[1]) :
            LET c == windows[1][i]
            IN  Classify(<<c>>, tables.Csi, tables.Mapping)
                    = SplitCharacters(<<c>>, tables.Mapping)

(***************************************************************************)
(* Claims about one polling window (SpecDecode).                           *)
(***************************************************************************)
\* every entry of the window has been put
WindowDone ==
    /\ Len(windows) = 1
    /\ pc["decoder"] \in {"sleep", "while"}
    /\ call["decoder"] = NoCall

\* the accumulator of the window is exactly w
WindowIs(w) == WindowDone /\ windows[1] = w

\* the events the decoder enqueued
Enqueued == queues["Buffer"].Buffer

C13_ControlCodeNamed ==
    \A c \in (0..31) \cup {127} :
        WindowIs(<<c>>)
            => /\ Len(Enqueued) = 1
               /\ Enqueued[1].type = "ControlCode"
               /\ Enqueued[1].Name = ASCII_CONTROL_CODES[c]
               /\ c = 0 => Enqueued[1].Name = "NUL"
               /\ c = 27 => Enqueued[1].Name = "ESC"
               /\ c = 127 => Enqueued[1].Name = "DEL"

\* the window DEL (127) was classified and its event enqueued
C13_Witness == WindowIs(<<127>>) /\ Len(Enqueued) = 1

\* C14: an accumulator ESC b with b printable ASCII and the pair not a key of
\* the CSI table enqueues exactly one event, the string 'Alt-' followed by b.
C14_AltKey ==
    \A b \in 32..126 :
        (WindowIs(<<ESC, b>>) /\ <<ESC, b>> \notin DOMAIN tables.Csi)
            => Enqueued = <<Str(<<65, 108, 116, 45, b>>)>>

\* the window ESC 'A' was classified and its event enqueued
C14_Witness == WindowIs(<<ESC, 65>>) /\ Len(Enqueued) = 1

\* C15: an accumulator that is exactly one key of the CSI table enqueues
\* exactly one event, the value the table maps the key to.
C15_ExactCsiKey ==
    \A k \in DOMAIN tables.Csi :
        WindowIs(k) => Enqueued = <<tables.Csi[k]>>

\* the window ESC TAB was classified with a table that has this key
C15_Witness ==
    /\ WindowIs(<<ESC, 9>>)
    /\ <<ESC, 9>> \in DOMAIN tables.Csi
    /\ Len(Enqueued) = 1

\* C16: an accumulator made of a key of the CSI table followed by 'x', the
\* whole not a key, enqueues exactly two events: the value the table maps the
\* key to, then the string 'x'.
C16_CsiKeyThenLiteral ==
    \A k \in DOMAIN tables.Csi :
        (WindowIs(k \o <<120>>) /\ k \o <<120>> \notin DOMAIN tables.Csi)
            => Enqueued = <<tables.Csi[k], Str(<<120>>)>>

\* the bytes of the accumulator of the window, as line 259 encodes them
WindowBytes == Utf8Encode(windows[1])

\* the accumulator of the window is one escape group: ESC first, no other ESC
OneGroup ==
    /\ WindowDone
    /\ Len(windows[1]) >= 2
    /\ windows[1][1] = ESC
    /\ \A i \in 2..Len(windows[1]) : windows[1][i] # ESC

\* no rule applies to the group g: it is not a key of the CSI table, its
\* second byte is not printable ASCII and no proper prefix of two bytes or
\* more is a key
NoRule(g) ==
    /\ g \notin DOMAIN tables.Csi
    /\ ~(32 <= g[2] /\ g[2] <= 126)
    /\ \A n \in 2..(Len(g) - 1) : SubSeq(g, 1, n) \notin DOMAIN tables.Csi

\* C21: an accumulator that is one escape group of two bytes or more to which
\* no rule applies enqueues at least one event, the first of them the
\* ControlCode ESC.
C21_UnmatchedGroupYieldsEsc ==
    (OneGroup /\ NoRule(WindowBytes))
        => /\ Len(Enqueued) >= 1
           /\ Enqueued[1].type = "ControlCode"
           /\ Enqueued[1].Name = "ESC"

\* the event e is the one of the ordinary character c: the ControlCode named
\* in ASCII_CONTROL_CODES when c has an entry there, the string c otherwise
CharEvent(c, e) ==
    IF c \in DOMAIN ASCII_CONTROL_CODES
    THEN e.type = "ControlCode" /\ e.Name = ASCII_CONTROL_CODES[c]
    ELSE e = Str(<<c>>)

\* the events es are those of the ordinary characters cs, one each, in order
CharEvents(cs, es) ==
    /\ Len(es) = Len(cs)
    /\ \A i \in 1..Len(cs) : CharEvent(cs[i], es[i])

\* the lengths of the proper prefixes of g, two bytes or more, that are keys
KeyPrefixes(g) ==
    {n \in 2..(Len(g) - 1) : SubSeq(g, 1, n) \in DOMAIN tables.Csi}

\* C26: an accumulator that is one escape group, not a key of the CSI table,
\* with a second byte that is not printable ASCII and with a proper prefix of
\* two bytes or more that is a key, enqueues the value the table maps the
\* longest such prefix to, then one event per character after that prefix.
C26_LongestPrefixMapped ==
    (/\ OneGroup
     /\ WindowBytes \notin DOMAIN tables.Csi
     /\ ~(32 <= WindowBytes[2] /\ WindowBytes[2] <= 126)
     /\ KeyPrefixes(WindowBytes) # {})
        => LET n == CHOOSE k \in KeyPrefixes(WindowBytes) :
                        \A m \in KeyPrefixes(WindowBytes) : m <= k
           IN  /\ Len(Enqueued) >= 1
               /\ Enqueued[1] = tables.Csi[SubSeq(WindowBytes, 1, n)]
               /\ CharEvents(SubSeq(windows[1], n + 1, Len(windows[1])),
                             Tail(Enqueued))

\* the accumulator classified is ESC, a printable ASCII character and possibly
\* more characters, none of them ESC, and it is not a key of the CSI table
AltGroup ==
    /\ Len(windows) = 1
    /\ Len(windows[1]) >= 2
    /\ windows[1][1] = ESC
    /\ \A i \in 2..Len(windows[1]) : windows[1][i] # ESC
    /\ 32 <= windows[1][2] /\ windows[1][2] <= 126
    /\ WindowBytes \notin DOMAIN tables.Csi

\* C27: for an accumulator ESC b r1..rn that is not a key of the CSI table,
\* with b printable ASCII, the classification returns and the decoder
\* enqueues the string 'Alt-' followed by b, then exactly one event per
\* character r1..rn, in order: the ControlCode of the character when it has
\* an entry in the control code table, the character itself otherwise.
C27_AltThenRest ==
    AltGroup
        => /\ pc["decoder"] # "raised"
           /\ WindowDone
                => /\ Len(Enqueued) = Len(windows[1]) - 1
                   /\ Enqueued[1] = Str(<<65, 108, 116, 45, windows[1][2]>>)
                   /\ CharEvents(SubSeq(windows[1], 3, Len(windows[1])),
                                 Tail(Enqueued))

\* ESC '[' TAB U+00E9 was classified: 'Alt-[', the ControlCode TAB and the
\* string U+00E9 were enqueued
C27_Witness ==
    /\ WindowIs(<<ESC, 91, 9, 233>>)
    /\ Len(Enqueued) = 3
    /\ Enqueued[2].type = "ControlCode"
    /\ Enqueued[3] = Str(<<233>>)

\* the accumulator classified has two characters or more, none of them ESC
NoEscape ==
    /\ Len(windows) = 1
    /\ Len(windows[1]) > 1
    /\ \A i \in 1..Len(windows[1]) : windows[1][i] # ESC

\* C28: for an accumulator of n > 1 characters without ESC the classification
\* returns and the decoder enqueues exactly n events, the i-th of them for
\* the i-th character: the ControlCode named in the control code table when
\* the character has an entry there, the character itself otherwise.
C28_OnePerCharacter ==
    NoEscape
        => /\ pc["decoder"] # "raised"
           /\ WindowDone => CharEvents(windows[1], Enqueued)

\* 'A' SPACE TAB U+00E9 was classified: 'A', the ControlCodes SPACE and TAB
\* and U+00E9 were enqueued
C28_Witness ==
    /\ WindowIs(<<65, 32, 9, 233>>)
    /\ Len(Enqueued) = 4
    /\ Enqueued[1] = Str(<<65>>)
    /\ Enqueued[2].type = "ControlCode"
    /\ Enqueued[3].type = "ControlCode"
    /\ Enqueued[4] = Str(<<233>>)

\* the accumulator classified has two characters or more, one of them ESC
HasEscape ==
    /\ Len(windows) = 1
    /\ Len(windows[1]) > 1
    /\ \E i \in 1..Len(windows[1]) : windows[1][i] = ESC

\* the positions of the ESC bytes in the encoded accumulator
EscAt == {i \in 1..Len(WindowBytes) : WindowBytes[i] = ESC}

\* the position of the first ESC among the characters of the accumulator
FirstEscChar ==
    CHOOSE i \in 1..Len(windows[1]) :
        /\ windows[1][i] = ESC
        /\ \A j \in 1..(i - 1) : windows[1][j] # ESC

\* the groups ParseEscapeSequence cuts the encoded accumulator into
Groups ==
    LET Index == FirstEscape(WindowBytes, 0)
    IN  EscapedBuffer(WindowBytes, Index, Index + 1)

\* the events of the groups G before the k-th
EventsBefore(G, k) ==
    Flatten([j \in 1..(k - 1) |->
                ParseEscaped(G[j], tables.Csi, tables.Mapping).val])

\* C29: ParseEscapeSequence partitions the accumulator.  The index it stops
\* at is that of the first ESC byte; the rest is cut into as many groups as
\* there are ESC bytes, each group starts with ESC and holds no other ESC,
\* and the groups concatenated in order are the rest of the input.  The
\* events enqueued are one per character before the first ESC, as without
\* ESC, then the events of the groups in the order of the groups; a group
\* that is ESC alone yields the ControlCode ESC.
C29_Partition ==
    HasEscape
        => /\ pc["decoder"] # "raised"
           /\ WindowDone
                => LET Data == WindowBytes
                       Index == FirstEscape(Data, 0)
                       G == Groups
                       n == FirstEscChar - 1
                       all == EventsBefore(G, Len(G) + 1)
                   IN  /\ \A i \in EscAt : Index + 1 <= i
                       /\ Index + 1 \in EscAt
                       /\ Len(G) = Cardinality(EscAt)
                       /\ \A k \in 1..Len(G) :
                            /\ G[k] # <<>>
                            /\ G[k][1] = ESC
                            /\ \A i \in 2..Len(G[k]) : G[k][i] # ESC
                       /\ Flatten(G) = SubSeq(Data, Index + 1, Len(Data))
                       /\ Len(Enqueued) = n + Len(all)
                       /\ CharEvents(SubSeq(windows[1], 1, n),
                                     SubSeq(Enqueued, 1, n))
                       /\ SubSeq(Enqueued, n + 1, Len(Enqueued)) = all
                       /\ \A k \in 1..Len(G) :
                            G[k] = <<ESC>>
                                => LET m == Len(EventsBefore(G, k))
                                       e == Enqueued[n + m + 1]
                                   IN  /\ e.type = "ControlCode"
                                       /\ e.Name = "ESC"
                                       /\ Len(EventsBefore(G, k + 1)) = m + 1

\* 'A' ESC ESC 'x' was classified: the groups are ESC and ESC 'x', and 'A',
\* the ControlCode ESC and 'Alt-x' were enqueued
C29_Witness ==
    /\ WindowIs(<<65, ESC, ESC, 120>>)
    /\ Groups = <<(<<ESC>>), <<ESC, 120>>>>
    /\ Len(Enqueued) = 3
    /\ Enqueued[1] = Str(<<65>>)
    /\ Enqueued[2].type = "ControlCode"
    /\ Enqueued[3] = Str(<<65, 108, 116, 45, 120>>)


(***************************************************************************)
(* The view classes of cli_ui (base_view_classes.py).  A widget is a       *)
(* record of its class, its Width, its MinWidth (0 when the class has      *)
(* none) and its Value, a text or the pair of a fraction.  An operation    *)
(* yields ok (FALSE: it raised), the object it leaves and out, what it     *)
(* wrote with sys.stdout.write: "clear" for '\r<blanks>\r', "show" for a   *)
(* representation, "newline" for '\n'.                                     *)
(***************************************************************************)
\* str(n) for an integer n >= 0
RECURSIVE DecStr(_)
DecStr(n) == IF n < 10 THEN <<48 + n>> ELSE Append(DecStr(n \div 10), 48 + (n % 10))

\* '{}/{}'.format(a, b)
CounterText(a, b) == DecStr(a) \o <<47>> \o DecStr(b)

\* '{}%'.format(n)
PercentText(n) == Append(DecStr(n), 37)

\* ProgressBarVW(Value): _MinWidth is 5 (line 471) and so is the default Width
ProgressBarVW(Value) ==
    [cls |-> "ProgressBarVW", Width |-> 5, MinWidth |-> 5, Value |-> Value]

\* TextLabel(Value, Width = Width): lines 342-345
TextLabel(Value, Width) ==
    [cls |-> "TextLabel", Width |-> IF Width > 0 THEN Width ELSE Len(Value) + 1,
     MinWidth |-> 0, Value |-> Value]

\* TextLabelVW.setValue (lines 873-878); the first assignment clears nothing
TextLabelVW_setValue(Item, Value) ==
    [ok |-> TRUE,
     Item |-> [Item EXCEPT !.Value = Value, !.MinWidth = Len(Value) + 1,
                           !.Width = Len(Value) + 1],
     out |-> <<"clear">>]

\* TextLabelVW(Value), no Width given: lines 836-837
TextLabelVW(Value) ==
    [cls |-> "TextLabelVW", Width |-> Len(Value) + 1, MinWidth |-> Len(Value) + 1,
     Value |-> Value]

\* hasattr(Item, 'MinWidth') and hasattr(Item, 'setWidth'): the classes that
\* mix ScalableWidth in
Scalable(Item) == Item.cls \in {"ProgressBarVW", "TextLabelVW", "SliderVW"}

\* BarControl_ABC.setValue (lines 541-547) with the fraction num / den
BarControl_setValue(Item, num, den) ==
    IF num < 0 \/ num > den
    THEN [ok |-> FALSE, Item |-> Item]
    ELSE [ok |-> TRUE, Item |-> [Item EXCEPT !.Value = <<num, den>>]]

\* ScalableWidth.setWidth (lines 694-701)
ScalableWidth_setWidth(Item, Width) ==
    IF Width < Item.MinWidth
    THEN [ok |-> FALSE, Item |-> Item, out |-> <<>>]
    ELSE [ok |-> TRUE, Item |-> [Item EXCEPT !.Width = Width], out |-> <<"clear">>]

\* HContainer(Width = Width), Width >= 0
HContainer(Width) == [Width |-> Width, Widgets |-> <<>>]

\* what a widget needs: lines 979-982 and 1082-1085
RequiredWidth(Item) == IF Scalable(Item) THEN Item.MinWidth ELSE Item.Width

RECURSIVE SumRequired(_)
SumRequired(Widgets) ==
    IF Widgets = <<>> THEN 0
    ELSE RequiredWidth(Head(Widgets)) + SumRequired(Tail(Widgets))

\* HContainer.MinWidth (lines 977-983)
HContainer_MinWidth(hc) == SumRequired(hc.Widgets)

\* line 1028
IsLastScalable(NumberScaledWidgets, NumberScalable) ==
    NumberScaledWidgets = NumberScalable

\* the loop of lines 1025-1031 from the i-th widget on; the widths asked
\* for are never below MinWidth, so setWidth does not raise
RECURSIVE ScaleLoop(_, _, _, _, _, _)
ScaleLoop(Widgets, i, NumberScaledWidgets, NumberScalable, MeanExtra, LastExtra) ==
    IF i > Len(Widgets) THEN [Widgets |-> Widgets, out |-> <<>>]
    ELSE IF Scalable(Widgets[i])
         THEN LET a == ScalableWidth_setWidth(Widgets[i],
                                              Widgets[i].MinWidth + MeanExtra)
              IN  IF IsLastScalable(NumberScaledWidgets, NumberScalable)
                  THEN LET b == ScalableWidth_setWidth(a.Item,
                                                       a.Item.Width + LastExtra)
                       IN  [Widgets |-> [Widgets EXCEPT ![i] = b.Item],
                            out |-> a.out \o b.out]
                  ELSE LET r == ScaleLoop([Widgets EXCEPT ![i] = a.Item], i + 1,
                                          NumberScaledWidgets + 1, NumberScalable,
                                          MeanExtra, LastExtra)
                       IN  [Widgets |-> r.Widgets, out |-> a.out \o r.out]
         ELSE ScaleLoop(Widgets, i + 1, NumberScaledWidgets, NumberScalable,
                        MeanExtra, LastExtra)

\* HContainer.setWidth (lines 1006-1031)
HContainer_setWidth(hc, Width) ==
    LET MinWidth == HContainer_MinWidth(hc)
        FreeSpace == Width - MinWidth
        NumberScalable ==
            Cardinality({i \in 1..Len(hc.Widgets) : Scalable(hc.Widgets[i])})
    IN  IF Width < MinWidth
        THEN [ok |-> FALSE, hc |-> hc, out |-> <<>>]
        ELSE LET r == IF NumberScalable # 0
                      THEN ScaleLoop(hc.Widgets, 1, 0, NumberScalable,
                                     FreeSpace \div NumberScalable,
                                     FreeSpace - (FreeSpace \div NumberScalable)
                                                    * NumberScalable)
                      ELSE [Widgets |-> hc.Widgets, out |-> <<>>]
             IN  [ok |-> TRUE, hc |-> [Width |-> Width, Widgets |-> r.Widgets],
                  out |-> <<"clear">> \o r.out]

\* HContainer.addWidget (lines 1080-1093)
HContainer_addWidget(hc, Widget) ==
    IF RequiredWidth(Widget) > hc.Width - HContainer_MinWidth(hc)
    THEN [ok |-> FALSE, hc |-> hc, out |-> <<>>]
    ELSE HContainer_setWidth([hc EXCEPT !.Widgets = Append(@, Widget)], hc.Width)


(***************************************************************************)
(* SpecBox: a caller holds one HContainer, stacks widgets into it, changes *)
(* its width and gives new values to the TextLabelVW widgets stacked.      *)
(* ui holds the container (hc) and, of the last call, its name (op), its   *)
(* argument (arg), whether it raised and what it wrote (out).              *)
(***************************************************************************)
MaxBoxWidth == 13   \* widest container explored
MaxWidgets == 3     \* how many widgets are stacked at most
MaxText == 2        \* longest text given to a label

\* a text of n characters
TextOf(n) == [i \in 1..n |-> 120]

\* the widgets handed to addWidget
BoxWidgets ==
    {ProgressBarVW(<<0, 1>>)}
        \cup {TextLabel(TextOf(n), 0) : n \in 1..MaxText}
        \cup {TextLabelVW(TextOf(n)) : n \in 1..MaxText}

\* the variables of the other specifications
NoQueues ==
    /\ queues = [q \in {"Buffer"} |-> NewInputBuffer]
    /\ pc = [t \in SeqThreads |-> "idle"]
    /\ call = [t \in SeqThreads |-> NoCall]
    /\ ret = [t \in SeqThreads |-> None]
    /\ hist = <<>>
    /\ steady = FALSE /\ putLog = <<>> /\ getLog = <<>>
    /\ NoSession

Called(op, arg, r, obj) ==
    [obj |-> obj, op |-> op, arg |-> arg, raised |-> ~r.ok, out |-> r.out]

BoxInit ==
    /\ NoQueues
    /\ \E Width \in 0..MaxBoxWidth :
        ui = Called("__init__", Width, [ok |-> TRUE, out |-> <<>>], HContainer(Width))

BoxDo(op, arg, r) ==
    /\ ui' = Called(op, arg, r, r.hc)
    /\ UNCHANGED <<queues, pc, call, ret, hist, concVars, Input, Entries, Key,
                   StopKey, term, tables, readLog, windows, gotLog, typed,
                   lateReads, host, stopReads>>

BoxAddWidget ==
    \E Widget \in BoxWidgets :
        /\ Len(ui.obj.Widgets) < MaxWidgets
        /\ BoxDo("addWidget", Widget.Width, HContainer_addWidget(ui.obj, Widget))

BoxSetWidth ==
    \E Width \in 0..MaxBoxWidth :
        BoxDo("setWidth", Width, HContainer_setWidth(ui.obj, Width))

\* setValue of a TextLabelVW that is stacked in the container
BoxSetValue ==
    \E i \in 1..Len(ui.obj.Widgets), n \in 1..MaxText :
        /\ ui.obj.Widgets[i].cls = "TextLabelVW"
        /\ LET r == TextLabelVW_setValue(ui.obj.Widgets[i], TextOf(n))
           IN  BoxDo("setValue", n,
                     [ok |-> r.ok, out |-> r.out,
                      hc |-> [ui.obj EXCEPT !.Widgets[i] = r.Item]])

BoxNext == BoxAddWidget \/ BoxSetWidth \/ BoxSetValue

SpecBox == BoxInit /\ [][BoxNext]_vars

(***************************************************************************)
(* Claims about HContainer (SpecBox).                                      *)
(***************************************************************************)
RECURSIVE SumWidths(_)
SumWidths(Widgets) ==
    IF Widgets = <<>> THEN 0 ELSE Head(Widgets).Width + SumWidths(Tail(Widgets))

\* C37: after every setWidth or addWidget call that returned, on a container
\* that holds at least one variable-width widget, the widths of the stacked
\* widgets sum to the width of the container.
C37_ScaledToFill ==
    (/\ ui.op \in {"setWidth", "addWidget"} /\ ~ui.raised
     /\ \E i \in 1..Len(ui.obj.Widgets) : Scalable(ui.obj.Widgets[i]))
        => SumWidths(ui.obj.Widgets) = ui.obj.Width

\* C38: the widths the stacked widgets require (the fixed width, or the
\* minimum of a variable-width widget) never sum to more than the width of
\* the container, also after a stacked TextLabelVW got a new value.
C38_RequiredFits == HContainer_MinWidth(ui.obj) <= ui.obj.Width


(***************************************************************************)
(* ProgressBarIndicator (line_widgets.py).  The object is a record of its  *)
(* Range, Value, Width and IsActive, of whether it has a counter and a     *)
(* percents label (Counter, Percents: the attribute is not None) and of    *)
(* its HContainer (Indicator), in which the progress bar is the first      *)
(* widget, followed by the counter and then the percents label.  When an   *)
(* operation raises, the object it yields is what the exception leaves.    *)
(***************************************************************************)
CounterAt(b) == IF b.Counter THEN 2 ELSE 0

PercentsAt(b) == IF ~b.Percents THEN 0 ELSE IF b.Counter THEN 3 ELSE 2

\* (100 * self.Value) // self.Range
Percent(Value, Range) == (100 * Value) \div Range

\* 2 * (len(str(Range)) + 1): the width of the counter
CounterWidth(Range) == 2 * (Len(DecStr(Range)) + 1)

\* lines 122-126
InitMinWidth(Range, ShowCounter, ShowPercents) ==
    5 + (IF ShowCounter THEN CounterWidth(Range) ELSE 0)
      + (IF ShowPercents THEN 5 ELSE 0)

\* HContainer(Width) with the widgets of ws added one after the other; they
\* fit, and out is what the addWidget calls wrote
RECURSIVE Stacked(_, _)
Stacked(hc, ws) ==
    IF ws = <<>> THEN [hc |-> hc, out |-> <<>>]
    ELSE LET a == HContainer_addWidget(hc, Head(ws))
             r == Stacked(a.hc, Tail(ws))
         IN  [hc |-> r.hc, out |-> a.out \o r.out]

\* ProgressBarIndicator(Range, Value = Value, ShowCounter = ShowCounter,
\* ShowPercents = ShowPercents, Width = Width), lines 108-153
ProgressBarIndicator(Range, Value, ShowCounter, ShowPercents, Width) ==
    IF \/ Range <= 0
       \/ Value < 0 \/ Value > Range
       \/ Width < InitMinWidth(Range, ShowCounter, ShowPercents)
    THEN [ok |-> FALSE, b |-> None, out |-> <<>>]
    ELSE LET strValue == PercentText(Percent(Value, Range))
             r == Stacked(HContainer(Width),
                          <<ProgressBarVW(<<0, 1>>)>>
                            \o (IF ShowCounter
                                THEN <<TextLabel(strValue, CounterWidth(Range))>>
                                ELSE <<>>)
                            \o (IF ShowPercents
                                THEN <<TextLabel(strValue, 5)>> ELSE <<>>))
         IN  [ok |-> TRUE,
              b |-> [Range |-> Range, Value |-> Value, Width |-> Width,
                     IsActive |-> FALSE, Counter |-> ShowCounter,
                     Percents |-> ShowPercents, Indicator |-> r.hc],
              out |-> r.out]

\* getStringValue (lines 426-434): the values of the stacked widgets are set
PBI_getStringValue(b) ==
    LET W == b.Indicator.Widgets
        p == BarControl_setValue(W[1], b.Value, b.Range)
    IN  IF ~p.ok THEN [ok |-> FALSE, b |-> b]
        ELSE [ok |-> TRUE,
              b |-> [b EXCEPT !.Indicator.Widgets =
                        [i \in 1..Len(W) |->
                            IF i = 1 THEN p.Item
                            ELSE IF i = CounterAt(b)
                                 THEN [W[i] EXCEPT !.Value = CounterText(b.Value, b.Range)]
                                 ELSE [W[i] EXCEPT !.Value =
                                            PercentText(Percent(b.Value, b.Range))]]]]

\* _show (lines 169-172); update() is clear() and show()
PBI_show(b) ==
    LET g == PBI_getStringValue(b)
    IN  [ok |-> g.ok, b |-> g.b,
         out |-> IF g.ok /\ b.IsActive THEN <<"clear", "show">> ELSE <<>>]

\* start (lines 240-243)
PBI_start(b) ==
    LET r == PBI_show([b EXCEPT !.IsActive = TRUE])
    IN  [ok |-> r.ok, b |-> r.b, out |-> <<"newline">> \o r.out]

\* stop (lines 255-257)
PBI_stop(b) ==
    [ok |-> TRUE, b |-> [b EXCEPT !.IsActive = FALSE], out |-> <<"newline">>]

\* fault variant: only negative values are refused
ValueAllowed_nonneg(Value, Range) == ~(Value < 0)

\* the test of line 319
ValueAllowed(Value, Range) == ~((Value < 0) \/ (Value > Range))

\* setValue (lines 318-325)
PBI_setValue(b, Value) ==
    IF ~ValueAllowed(Value, b.Range)
    THEN [ok |-> FALSE, b |-> b, out |-> <<>>]
    ELSE PBI_show([b EXCEPT !.Value = Value])

\* reset (line 269)
PBI_reset(b) == PBI_setValue(b, 0)

\* inc (lines 281-283)
PBI_inc(b) ==
    IF b.Value < b.Range THEN PBI_setValue(b, b.Value + 1)
    ELSE [ok |-> TRUE, b |-> b, out |-> <<>>]

\* dec (lines 295-297)
PBI_dec(b) ==
    IF b.Value > 0 THEN PBI_setValue(b, b.Value - 1)
    ELSE [ok |-> TRUE, b |-> b, out |-> <<>>]

\* setWidth (lines 347-356)
PBI_setWidth(b, Width) ==
    IF Width < HContainer_MinWidth(b.Indicator)
    THEN [ok |-> FALSE, b |-> b, out |-> <<>>]
    ELSE LET w == HContainer_setWidth(b.Indicator, Width)
             b1 == [b EXCEPT !.Width = Width, !.Indicator = w.hc]
         IN  IF ~w.ok THEN [ok |-> FALSE, b |-> b1, out |-> w.out]
             ELSE LET r == PBI_show(b1)
                  IN  [ok |-> r.ok, b |-> r.b, out |-> w.out \o r.out]

\* fault variant: the value is left as it is
ClampValue_kept(Value, Range) == Value

\* lines 388-389
ClampValue(Value, Range) == IF Value > Range THEN Range ELSE Value

\* lines 390-407: the counter and the container are made anew when the
\* number of digits of the range changes
Rebuilt(b, Range) ==
    IF ~b.Counter \/ Len(DecStr(b.Range)) = Len(DecStr(Range))
    THEN [b |-> b, out |-> <<>>]
    ELSE LET W == b.Indicator.Widgets
             iMinLength == W[1].MinWidth + CounterWidth(Range)
                            + (IF b.Percents THEN W[PercentsAt(b)].Width ELSE 0)
             Width == IF iMinLength > b.Width THEN iMinLength ELSE b.Width
             r == Stacked(HContainer(Width),
                          <<W[1], TextLabel(<<32>>, CounterWidth(Range))>>
                            \o (IF b.Percents THEN <<W[PercentsAt(b)]>> ELSE <<>>))
         IN  [b |-> [b EXCEPT !.Width = Width, !.Indicator = r.hc], out |-> r.out]

\* setRange (lines 382-409)
PBI_setRange(b, Range) ==
    IF Range <= 0
    THEN [ok |-> FALSE, b |-> b, out |-> <<>>]
    ELSE LET n == Rebuilt([b EXCEPT !.Value = ClampValue(b.Value, Range)], Range)
             r == PBI_show([n.b EXCEPT !.Range = Range])
         IN  [ok |-> r.ok, b |-> r.b, out |-> n.out \o r.out]

(***************************************************************************)
(* SpecBar: a caller holds one ProgressBarIndicator and calls its methods, *)
(* with arguments inside and outside of what they accept.                  *)
(***************************************************************************)
MaxRange == 10      \* largest range explored: str(Range) has 1 or 2 digits
MaxBarWidth == 17   \* widest indicator asked for

\* the widths asked for, from one below what a progress bar with the counter
\* of a one-digit range and the percents needs
BarWidths == 13..MaxBarWidth

BarInit ==
    /\ NoQueues
    /\ \E Range \in 1..MaxRange, ShowCounter \in BOOLEAN, ShowPercents \in BOOLEAN,
          Width \in BarWidths :
        \E Value \in 0..Range :
            LET r == ProgressBarIndicator(Range, Value, ShowCounter, ShowPercents, Width)
            IN  r.ok /\ ui = Called("__init__", Range, r, r.b)

BarDo(op, arg, r) ==
    /\ ui' = Called(op, arg, r, r.b)
    /\ UNCHANGED <<queues, pc, call, ret, hist, concVars, Input, Entries, Key,
                   StopKey, term, tables, readLog, windows, gotLog, typed,
                   lateReads, host, stopReads>>

BarStart == BarDo("start", 0, PBI_start(ui.obj))

BarStop == BarDo("stop", 0, PBI_stop(ui.obj))

BarReset == BarDo("reset", 0, PBI_reset(ui.obj))

BarInc == BarDo("inc", 0, PBI_inc(ui.obj))

BarDec == BarDo("dec", 0, PBI_dec(ui.obj))

BarSetValue ==
    \E Value \in (0 - 1)..(MaxRange + 1) :
        BarDo("setValue", Value, PBI_setValue(ui.obj, Value))

BarSetWidth ==
    \E Width \in BarWidths : BarDo("setWidth", Width, PBI_setWidth(ui.obj, Width))

BarSetRange ==
    \E Range \in 0..MaxRange : BarDo("setRange", Range, PBI_setRange(ui.obj, Range))

BarNext ==
    \/ BarStart \/ BarStop \/ BarReset \/ BarInc \/ BarDec
    \/ BarSetValue \/ BarSetWidth \/ BarSetRange

SpecBar == BarInit /\ [][BarNext]_vars


(***************************************************************************)
(* Claims about ProgressBarIndicator (SpecBar).                            *)
(***************************************************************************)
\* C36: 0 <= Value <= Range and Range > 0 whatever is called; inc at
\* Value = Range and dec at Value = 0 change nothing; a setRange below the
\* current value sets the value to the new range.
C36_CounterInRange ==
    /\ [](/\ ui.obj.Range > 0
          /\ 0 <= ui.obj.Value /\ ui.obj.Value <= ui.obj.Range)
    /\ [][/\ (ui'.op = "inc" /\ ui.obj.Value = ui.obj.Range) => ui'.obj = ui.obj
          /\ (ui'.op = "dec" /\ ui.obj.Value = 0) => ui'.obj = ui.obj
          /\ (ui'.op = "setRange" /\ ui'.arg > 0 /\ ui'.arg < ui.obj.Value)
                => /\ ~ui'.raised
                   /\ ui'.obj.Range = ui'.arg /\ ui'.obj.Value = ui'.arg]_vars

\* the range of a running indicator was set below its value, to a range
\* with fewer digits
C36_Witness ==
    /\ ui.op = "setRange" /\ ~ui.raised /\ ui.obj.IsActive
    /\ ui.obj.Value = ui.obj.Range /\ ui.obj.Range = 9
    /\ Len(ui.out) > 2

\* C39: nothing is written to the console by the constructor, setValue,
\* setWidth, setRange, inc, dec or reset while the indicator is not active.
C39_SilentWhileInactive ==
    (/\ ui.op \in {"__init__", "setValue", "setWidth", "setRange", "inc", "dec",
                   "reset"}
     /\ ~ui.obj.IsActive)
        => ui.out = <<>>

\* the call that is made has an argument outside of what the method accepts
Refused ==
    \/ ui'.op = "setValue" /\ (ui'.arg < 0 \/ ui'.arg > ui.obj.Range)
    \/ ui'.op = "setWidth" /\ ui'.arg < HContainer_MinWidth(ui.obj.Indicator)
    \/ ui'.op = "setRange" /\ ui'.arg <= 0

\* C40: setValue, setWidth and setRange with an argument out of range raise
\* and leave Value, Range, Width and the active flag as they were.
C40_RefusedLeavesUnchanged ==
    [][Refused => /\ ui'.raised
                  /\ ui'.obj.Value = ui.obj.Value
                  /\ ui'.obj.Range = ui.obj.Range
                  /\ ui'.obj.Width = ui.obj.Width
                  /\ ui'.obj.IsActive = ui.obj.IsActive]_vars

\* a running indicator with counter and percents has refused a width
C40_Witness ==
    /\ ui.op = "setWidth" /\ ui.raised
    /\ ui.obj.IsActive /\ ui.obj.Counter /\ ui.obj.Percents

=============================================================================
